---- MODULE Spec2Model ----
(***************************************************************************)
(* Model of the swap execution core of comit-rs:                           *)
(*   - the herc20 persistence projection (nectar/src/database/herc20.rs),  *)
(*   - Bob's action derivation for BTC/ERC20                               *)
(*     (rfc003/bob/actions/btc_erc20.rs),                                  *)
(*   - Alice's action derivation for BTC/ETH                               *)
(*     (rfc003/alice/actions/btc_eth.rs).                                  *)
(* Each part has its own specification; the variables of the other parts   *)
(* are held at their initial value.                                        *)
(***************************************************************************)
EXTENDS Integers, Sequences, FiniteSets, TLC

VARIABLES
    db,          \* herc20 database: SwapId -> Option<Swap>
    pending,     \* per watcher: the save call it has issued and not yet run
    log,         \* completed save calls, in commit order
    loads,       \* completed load calls, in order
    bob,         \* bob::State the derivation is called on
    bob_calls,   \* results of the calls of bob::State::actions so far
    alice,       \* alice SwapStates value the derivation is called on
    alice_calls, \* results of the calls of SwapStates::actions so far
    run,         \* one run of the herc20 leg of a nectar swap
    cache,       \* the Cache: capacity, block cache, network slot, connector
    tasks,       \* per task: where its call on the cache stands
    trace,       \* the steps of the calls on the cache, in order
    bitcoind,    \* the bitcoind node: its network and its wallets
    wallet,      \* the Wallet in use, if Wallet::new has succeeded
    wallet_op,   \* the last wallet operation, with its RPCs and result
    market,      \* the BTC/DAI order book of the swarm and the reply of GET
    post         \* POST herc20/halbit: requests, storage, swarm, events

dbvars == <<db, pending, log, loads>>
bobvars == <<bob, bob_calls>>
alicevars == <<alice, alice_calls>>
cachevars == <<cache, tasks, trace>>
walletvars == <<bitcoind, wallet, wallet_op>>
vars == <<db, pending, log, loads, bob, bob_calls, alice, alice_calls, run,
          cache, tasks, trace, bitcoind, wallet, wallet_op, market, post>>

----------------------------------------------------------------------------
\* Bounds of the model.

MaxOrders == 2
MaxOffset == 2
MaxPosts == 2

MaxCalls == 2
NumLocations == 2
NumSecrets == 2
NumPeers == 2
NumAssets == 2
MaxActionCalls == 2
NumBlocks == 2
MaxCapacity == 2
MaxCacheCalls == 2

----------------------------------------------------------------------------
\* Option<T> and Result<T>.

None == [some |-> FALSE]
Some(v) == [some |-> TRUE, val |-> v]

Ok(v) == [ok |-> TRUE, val |-> v]
Err(e) == [ok |-> FALSE, err |-> e]

----------------------------------------------------------------------------
\* Persistence projection: nectar/src/database/herc20.rs

SwapIds == {"swap1", "swap2"}
Watchers == {"watcher1", "watcher2"}
Txs == {"tx1", "tx2"}
EthLocations == {"htlc1", "htlc2"}
EventSecrets == {"secret1", "secret2"}

EventKinds == {"Deployed", "Funded", "Redeemed", "Refunded"}

\* The events of swap::herc20, as the watchers produce them.
DeployedEvents == [transaction : Txs, location : EthLocations]
FundedEvents == [transaction : Txs]
RedeemedEvents == [transaction : Txs, secret : EventSecrets]
RefundedEvents == [transaction : Txs]

EventsOf(kind) ==
    CASE kind = "Deployed" -> DeployedEvents
      [] kind = "Funded" -> FundedEvents
      [] kind = "Redeemed" -> RedeemedEvents
      [] kind = "Refunded" -> RefundedEvents

\* impl From<herc20::Deployed> for Herc20Deployed, and back.
Herc20DeployedFrom(event) ==
    [transaction |-> event.transaction, location |-> event.location]
DeployedFrom(stored) ==
    [transaction |-> stored.transaction, location |-> stored.location]

\* impl From<herc20::Funded> for Herc20Funded, and back.
Herc20FundedFrom(event) == [transaction |-> event.transaction]
FundedFrom(stored) == [transaction |-> stored.transaction]

\* impl From<herc20::Redeemed> for Herc20Redeemed, and back.
Herc20RedeemedFrom(event) ==
    [transaction |-> event.transaction, secret |-> event.secret]
\* A conversion back that fills in a fixed secret.
RedeemedFromFixedSecret(stored) ==
    [transaction |-> stored.transaction, secret |-> "secret1"]

\* impl From<Herc20Redeemed> for herc20::Redeemed
RedeemedFrom(stored) ==
    [transaction |-> stored.transaction, secret |-> stored.secret]

\* impl From<herc20::Refunded> for Herc20Refunded, and back.
Herc20RefundedFrom(event) == [transaction |-> event.transaction]
RefundedFrom(stored) == [transaction |-> stored.transaction]

\* SecretHash::new: the SHA-256 of the secret.
SecretHashNew(secret) == <<"sha256", secret>>

\* Params::static_stub: the parameters of the swap the tests insert.
StaticStubParams ==
    [asset |-> [token_contract |-> 0, quantity |-> 34],
     redeem_identity |-> 0,
     refund_identity |-> 0,
     expiry |-> 12345689,
     secret_hash |-> SecretHashNew("secret1"),
     chain_id |-> "GETH_DEV"]

\* A swap record as insert_swap stores it: params, no event observed yet.
FreshSwap ==
    [herc20_params |-> StaticStubParams,
     herc20_deployed |-> None,
     herc20_funded |-> None,
     herc20_redeemed |-> None,
     herc20_refunded |-> None]

\* A save that writes a record holding the Deployed event alone, dropping
\* the other stored events.
SaveDeployedUpdateResets(old_swap, event) ==
    IF old_swap.herc20_deployed.some
    THEN Err("Herc20 Deployed event is already stored")
    ELSE Ok([herc20_params |-> old_swap.herc20_params,
             herc20_deployed |-> Some(Herc20DeployedFrom(event)),
             herc20_funded |-> None,
             herc20_redeemed |-> None,
             herc20_refunded |-> None])

\* The closure save::<herc20::Deployed> hands to update_swap.
SaveDeployedUpdate(old_swap, event) ==
    IF old_swap.herc20_deployed.some
    THEN Err("Herc20 Deployed event is already stored")
    ELSE Ok([old_swap EXCEPT !.herc20_deployed = Some(Herc20DeployedFrom(event))])

\* A save that overwrites the stored Funded event instead of bailing.
SaveFundedUpdateOverwrites(old_swap, event) ==
    Ok([old_swap EXCEPT !.herc20_funded = Some(Herc20FundedFrom(event))])

\* A save that keeps the stored Funded event and reports success.
SaveFundedUpdateKeepsFirst(old_swap, event) ==
    IF old_swap.herc20_funded.some
    THEN Ok(old_swap)
    ELSE Ok([old_swap EXCEPT !.herc20_funded = Some(Herc20FundedFrom(event))])

\* The closure save::<herc20::Funded> hands to update_swap.
SaveFundedUpdate(old_swap, event) ==
    IF old_swap.herc20_funded.some
    THEN Err("Herc20 Funded event is already stored")
    ELSE Ok([old_swap EXCEPT !.herc20_funded = Some(Herc20FundedFrom(event))])

\* A save of Redeemed that also drops the stored Funded event.
SaveRedeemedUpdateClearsFunded(old_swap, event) ==
    IF old_swap.herc20_redeemed.some
    THEN Err("Herc20 Redeem event is already stored")
    ELSE Ok([old_swap EXCEPT !.herc20_redeemed = Some(Herc20RedeemedFrom(event)),
                             !.herc20_funded = None])

\* The closure save::<herc20::Redeemed> hands to update_swap.
SaveRedeemedUpdate(old_swap, event) ==
    IF old_swap.herc20_redeemed.some
    THEN Err("Herc20 Redeem event is already stored")
    ELSE Ok([old_swap EXCEPT !.herc20_redeemed = Some(Herc20RedeemedFrom(event))])

\* The closure save::<herc20::Refunded> hands to update_swap.
SaveRefundedUpdate(old_swap, event) ==
    IF old_swap.herc20_refunded.some
    THEN Err("Herc20 Refunded event is already stored")
    ELSE Ok([old_swap EXCEPT !.herc20_refunded = Some(Herc20RefundedFrom(event))])

\* The closure of the save of the given kind.
SaveUpdate(kind, old_swap, event) ==
    CASE kind = "Deployed" -> SaveDeployedUpdate(old_swap, event)
      [] kind = "Funded" -> SaveFundedUpdate(old_swap, event)
      [] kind = "Redeemed" -> SaveRedeemedUpdate(old_swap, event)
      [] kind = "Refunded" -> SaveRefundedUpdate(old_swap, event)

\* Database::update_swap: one transaction on the swap's record. An unknown
\* swap id is an error; a closure error leaves the record as it was.
UpdateSwap(d, swap_id, kind, event) ==
    IF ~d[swap_id].some
    THEN [res |-> "Swap not found", db |-> d]
    ELSE LET r == SaveUpdate(kind, d[swap_id].val, event)
         IN IF r.ok
            THEN [res |-> "Ok", db |-> [d EXCEPT ![swap_id] = Some(r.val)]]
            ELSE [res |-> r.err, db |-> d]

\* The stored event of the given kind in a swap record.
StoredEvent(swap, kind) ==
    CASE kind = "Deployed" -> swap.herc20_deployed
      [] kind = "Funded" -> swap.herc20_funded
      [] kind = "Redeemed" -> swap.herc20_redeemed
      [] kind = "Refunded" -> swap.herc20_refunded

\* Database::get_swap_or_bail: the record of the swap, or an error.
get_swap_or_bail(d, swap_id) ==
    IF d[swap_id].some THEN Ok(d[swap_id].val) ELSE Err("Swap not found")

\* A load that answers None for a swap that has no record.
LoadDeployedUnknownIsNone(d, swap_id) ==
    LET swap == get_swap_or_bail(d, swap_id)
    IN IF ~swap.ok
       THEN Ok(None)
       ELSE Ok(IF swap.val.herc20_deployed.some
               THEN Some(DeployedFrom(swap.val.herc20_deployed.val))
               ELSE None)

\* Load<herc20::Deployed> for Database::load
LoadDeployed(d, swap_id) ==
    LET swap == get_swap_or_bail(d, swap_id)
    IN IF ~swap.ok
       THEN swap
       ELSE Ok(IF swap.val.herc20_deployed.some
               THEN Some(DeployedFrom(swap.val.herc20_deployed.val))
               ELSE None)

\* Load<herc20::Funded> for Database::load
LoadFunded(d, swap_id) ==
    LET swap == get_swap_or_bail(d, swap_id)
    IN IF ~swap.ok
       THEN swap
       ELSE Ok(IF swap.val.herc20_funded.some
               THEN Some(FundedFrom(swap.val.herc20_funded.val))
               ELSE None)

\* Load<herc20::Redeemed> for Database::load
LoadRedeemed(d, swap_id) ==
    LET swap == get_swap_or_bail(d, swap_id)
    IN IF ~swap.ok
       THEN swap
       ELSE Ok(IF swap.val.herc20_redeemed.some
               THEN Some(RedeemedFrom(swap.val.herc20_redeemed.val))
               ELSE None)

\* Load<herc20::Refunded> for Database::load
LoadRefunded(d, swap_id) ==
    LET swap == get_swap_or_bail(d, swap_id)
    IN IF ~swap.ok
       THEN swap
       ELSE Ok(IF swap.val.herc20_refunded.some
               THEN Some(RefundedFrom(swap.val.herc20_refunded.val))
               ELSE None)

\* The load of the given kind.
Load(kind, d, swap_id) ==
    CASE kind = "Deployed" -> LoadDeployed(d, swap_id)
      [] kind = "Funded" -> LoadFunded(d, swap_id)
      [] kind = "Redeemed" -> LoadRedeemed(d, swap_id)
      [] kind = "Refunded" -> LoadRefunded(d, swap_id)

\* The message save bails with when the event of the kind is already stored.
AlreadyStored(kind) ==
    CASE kind = "Deployed" -> "Herc20 Deployed event is already stored"
      [] kind = "Funded" -> "Herc20 Funded event is already stored"
      [] kind = "Redeemed" -> "Herc20 Redeem event is already stored"
      [] kind = "Refunded" -> "Herc20 Refunded event is already stored"

\* The LedgerState a swap record stands for: the stored events folded, a
\* later kind implying the earlier ones.
FoldLedgerState(swap) ==
    IF swap.herc20_redeemed.some THEN "Redeemed"
    ELSE IF swap.herc20_refunded.some THEN "Refunded"
    ELSE IF swap.herc20_funded.some THEN "Funded"
    ELSE IF swap.herc20_deployed.some THEN "Deployed"
    ELSE "NotDeployed"

\* NotDeployed < Deployed < Funded < {Redeemed, Refunded}
LedgerStateRank(kind) ==
    CASE kind = "NotDeployed" -> 0
      [] kind = "Deployed" -> 1
      [] kind = "Funded" -> 2
      [] kind \in {"Redeemed", "Refunded"} -> 3

Requests ==
    UNION {[kind : {k}, event : EventsOf(k), swap : SwapIds] : k \in EventKinds}

NumPending == Cardinality({w \in Watchers : pending[w].some})

DbInit ==
    /\ db = [s \in SwapIds |-> IF s = "swap1" THEN Some(FreshSwap) ELSE None]
    /\ pending = [w \in Watchers |-> None]
    /\ log = <<>>
    /\ loads = <<>>

\* db.insert_swap(swap_kind): a record for a swap id that has none.
InsertSwap(s) ==
    /\ ~db[s].some
    /\ db' = [db EXCEPT ![s] = Some(FreshSwap)]
    /\ UNCHANGED <<pending, log, loads>>

\* A watcher calls db.save(event, swap_id); the call has not run yet.
CallSave(w, req) ==
    /\ ~pending[w].some
    /\ Len(log) + NumPending + Len(loads) < MaxCalls
    /\ pending' = [pending EXCEPT ![w] = Some(req)]
    /\ UNCHANGED <<db, log, loads>>

\* Save<K> for Database::save: the update_swap transaction of a pending call.
Save(w) ==
    /\ pending[w].some
    /\ LET req == pending[w].val
           r == UpdateSwap(db, req.swap, req.kind, req.event)
       IN /\ db' = r.db
          /\ log' = Append(log,
                 [w |-> w, kind |-> req.kind, swap |-> req.swap,
                  event |-> req.event, res |-> r.res,
                  overlap |-> {v \in Watchers \ {w} :
                                  /\ pending[v].some
                                  /\ pending[v].val.kind = req.kind
                                  /\ pending[v].val.swap = req.swap},
                  before |-> db[req.swap], after |-> r.db[req.swap]])
    /\ pending' = [pending EXCEPT ![w] = None]
    /\ UNCHANGED loads

\* db.load::<K>(swap_id): a synchronous read; the saves committed before it
\* are the first `at` of the log.
DbLoad(kind, swap_id) ==
    /\ Len(log) + NumPending + Len(loads) < MaxCalls
    /\ loads' = Append(loads,
           [kind |-> kind, swap |-> swap_id, at |-> Len(log),
            known |-> db[swap_id].some,
            result |-> Load(kind, db, swap_id)])
    /\ UNCHANGED <<db, pending, log>>

DbNext ==
    \/ \E s \in SwapIds : InsertSwap(s)
    \/ \E w \in Watchers, req \in Requests : CallSave(w, req)
    \/ \E w \in Watchers : Save(w)
    \/ \E kind \in EventKinds, s \in SwapIds : DbLoad(kind, s)

----------------------------------------------------------------------------
\* Bob's action derivation: rfc003/bob/actions/btc_erc20.rs

Peers == 1..NumPeers
Secrets == 1..NumSecrets
\* bitcoin htlc locations (alpha) and ethereum htlc locations (beta)
OutPoints == {<<"OutPoint", n>> : n \in 1..NumLocations}
Addresses == {<<"Address", n>> : n \in 1..NumLocations}
Assets == 1..NumAssets

LedgerStateKinds == {"NotDeployed", "Deployed", "Funded", "Redeemed", "Refunded"}

\* rfc003::LedgerState over the htlc locations of one ledger.
LedgerStates(locations) ==
    {[kind |-> "NotDeployed"]}
        \cup [kind : LedgerStateKinds \ {"NotDeployed"}, htlc_location : locations]

\* swap_accepted::SwapAccepted<Bitcoin, Ethereum, BitcoinQuantity, Erc20Token>
SwapAccepteds ==
    [request : [alpha_ledger : {[ledger |-> "Bitcoin", network |-> "regtest"]},
                beta_ledger : {[ledger |-> "Ethereum", network |-> "dev"]},
                alpha_asset : Assets,
                beta_asset : [token_contract : {"token"}, quantity : Assets],
                secret_hash : {"secret_hash"}]]

\* bob::SwapCommunication
SwapCommunications ==
    [kind : {"Proposed"}, pending_response : [sender : Peers]]
        \cup [kind : {"Accepted"}, swap_accepted : SwapAccepteds]
        \cup {[kind |-> "Rejected"]}

\* bob::State<Bitcoin, Ethereum, BitcoinQuantity, Erc20Token>
BobStates ==
    [swap_communication : SwapCommunications,
     alpha_ledger_state : LedgerStates(OutPoints),
     beta_ledger_state : LedgerStates(Addresses),
     secret : {None} \cup {Some(x) : x \in Secrets}]

\* SwapAccepted::alpha_htlc_params and beta_htlc_params.
alpha_htlc_params(swap_accepted) ==
    [ledger |-> swap_accepted.request.alpha_ledger,
     asset |-> swap_accepted.request.alpha_asset,
     secret_hash |-> swap_accepted.request.secret_hash]
beta_htlc_params(swap_accepted) ==
    [ledger |-> swap_accepted.request.beta_ledger,
     asset |-> swap_accepted.request.beta_asset,
     secret_hash |-> swap_accepted.request.secret_hash]

\* Erc20Htlc::funding_tx_payload: the token transfer to the htlc.
funding_tx_payload(htlc, htlc_location) ==
    [transfer_to |-> htlc_location, quantity |-> htlc.asset.quantity]

\* bitcoin::Htlc::unlock_with_secret
unlock_with_secret(htlc, key, secret) ==
    [htlc |-> htlc, key |-> key, secret |-> secret]

deploy_action(swap_accepted) ==
    [kind |-> "Deploy", htlc |-> beta_htlc_params(swap_accepted)]

\* fund_action that pays the tokens to the default (zero) address, not to
\* the htlc location it is given.
fund_action_default_address(swap_accepted, beta_htlc_location) ==
    [kind |-> "Fund",
     to |-> swap_accepted.request.beta_asset.token_contract,
     data |-> funding_tx_payload(beta_htlc_params(swap_accepted),
                                 <<"Address", 0>>),
     gas_limit |-> "fund_tx_gas_limit",
     amount |-> 0,
     network |-> swap_accepted.request.beta_ledger.network]

fund_action(swap_accepted, beta_htlc_location) ==
    [kind |-> "Fund",
     to |-> swap_accepted.request.beta_asset.token_contract,
     data |-> funding_tx_payload(beta_htlc_params(swap_accepted),
                                 beta_htlc_location),
     gas_limit |-> "fund_tx_gas_limit",
     amount |-> 0,
     network |-> swap_accepted.request.beta_ledger.network]

\* redeem_action that takes the network of the beta ledger.
redeem_action_beta_network(swap_accepted, alpha_htlc_location, secret) ==
    [kind |-> "Redeem",
     output |-> [outpoint |-> alpha_htlc_location,
                 value |-> swap_accepted.request.alpha_asset,
                 witness |-> unlock_with_secret(
                                 alpha_htlc_params(swap_accepted),
                                 "secp256k1_redeem", secret)],
     network |-> swap_accepted.request.beta_ledger.network]

redeem_action(swap_accepted, alpha_htlc_location, secret) ==
    [kind |-> "Redeem",
     output |-> [outpoint |-> alpha_htlc_location,
                 value |-> swap_accepted.request.alpha_asset,
                 witness |-> unlock_with_secret(
                                 alpha_htlc_params(swap_accepted),
                                 "secp256k1_redeem", secret)],
     network |-> swap_accepted.request.alpha_ledger.network]

\* The match on the ledger states with the Redeem arm tried last.
BobLedgerActionsRedeemLast(swap_accepted, alpha_state, beta_state, secret) ==
    IF alpha_state.kind = "Funded" /\ beta_state.kind = "NotDeployed"
    THEN <<deploy_action(swap_accepted)>>
    ELSE IF alpha_state.kind = "Funded" /\ beta_state.kind = "Deployed"
    THEN <<fund_action(swap_accepted, beta_state.htlc_location)>>
    ELSE IF alpha_state.kind = "Funded" /\ secret.some
    THEN <<redeem_action(swap_accepted, alpha_state.htlc_location, secret.val)>>
    ELSE <<>>

\* The match on the ledger states without the Deploy arm.
BobLedgerActionsNoDeploy(swap_accepted, alpha_state, beta_state, secret) ==
    IF alpha_state.kind = "Funded" /\ secret.some
    THEN <<redeem_action(swap_accepted, alpha_state.htlc_location, secret.val)>>
    ELSE IF alpha_state.kind = "Funded" /\ beta_state.kind = "Deployed"
    THEN <<fund_action(swap_accepted, beta_state.htlc_location)>>
    ELSE <<>>

\* The match on the ledger states with a Redeem arm that takes any alpha
\* state that has an htlc location, not only Funded.
BobLedgerActionsRedeemAnyAlpha(swap_accepted, alpha_state, beta_state, secret) ==
    IF alpha_state.kind # "NotDeployed" /\ secret.some
    THEN <<redeem_action(swap_accepted, alpha_state.htlc_location, secret.val)>>
    ELSE IF alpha_state.kind = "Funded" /\ beta_state.kind = "NotDeployed"
    THEN <<deploy_action(swap_accepted)>>
    ELSE IF alpha_state.kind = "Funded" /\ beta_state.kind = "Deployed"
    THEN <<fund_action(swap_accepted, beta_state.htlc_location)>>
    ELSE <<>>

\* The match on the ledger states with a Deploy arm that takes any alpha
\* state.
BobLedgerActionsDeployAnyAlpha(swap_accepted, alpha_state, beta_state, secret) ==
    IF alpha_state.kind = "Funded" /\ secret.some
    THEN <<redeem_action(swap_accepted, alpha_state.htlc_location, secret.val)>>
    ELSE IF beta_state.kind = "NotDeployed"
    THEN <<deploy_action(swap_accepted)>>
    ELSE IF alpha_state.kind = "Funded" /\ beta_state.kind = "Deployed"
    THEN <<fund_action(swap_accepted, beta_state.htlc_location)>>
    ELSE <<>>

\* Actions for bob::State::actions: the match on (alpha_state, beta_state,
\* self.secret) once the swap is accepted; the arms are tried in order.
BobLedgerActions(swap_accepted, alpha_state, beta_state, secret) ==
    IF alpha_state.kind = "Funded" /\ secret.some
    THEN <<redeem_action(swap_accepted, alpha_state.htlc_location, secret.val)>>
    ELSE IF alpha_state.kind = "Funded" /\ beta_state.kind = "NotDeployed"
    THEN <<deploy_action(swap_accepted)>>
    ELSE IF alpha_state.kind = "Funded" /\ beta_state.kind = "Deployed"
    THEN <<fund_action(swap_accepted, beta_state.htlc_location)>>
    ELSE <<>>

\* actions that treats a rejected swap like a proposed one.
BobActionsRejectedAsProposed(state) ==
    LET comm == state.swap_communication
    IN CASE comm.kind \in {"Proposed", "Rejected"} ->
              <<[kind |-> "Accept", sender |-> 0],
                [kind |-> "Decline", sender |-> 0]>>
         [] comm.kind = "Accepted" ->
              BobLedgerActions(comm.swap_accepted, state.alpha_ledger_state,
                               state.beta_ledger_state, state.secret)

\* actions that offers only Accept while the swap is proposed.
BobActionsAcceptOnly(state) ==
    LET comm == state.swap_communication
    IN CASE comm.kind = "Proposed" ->
              <<[kind |-> "Accept", sender |-> comm.pending_response.sender]>>
         [] comm.kind = "Rejected" -> <<>>
         [] comm.kind = "Accepted" ->
              BobLedgerActions(comm.swap_accepted, state.alpha_ledger_state,
                               state.beta_ledger_state, state.secret)

\* Actions for bob::State::actions
BobActions(state) ==
    LET comm == state.swap_communication
    IN CASE comm.kind = "Proposed" ->
              <<[kind |-> "Accept", sender |-> comm.pending_response.sender],
                [kind |-> "Decline", sender |-> comm.pending_response.sender]>>
         [] comm.kind = "Rejected" -> <<>>
         [] comm.kind = "Accepted" ->
              BobLedgerActions(comm.swap_accepted, state.alpha_ledger_state,
                               state.beta_ledger_state, state.secret)

BobIdle ==
    [swap_communication |-> [kind |-> "Rejected"],
     alpha_ledger_state |-> [kind |-> "NotDeployed"],
     beta_ledger_state |-> [kind |-> "NotDeployed"],
     secret |-> None]

BobInit ==
    /\ bob \in BobStates
    /\ bob_calls = <<>>

\* A caller (the status layer, the executor) calls state.actions().
BobCallActions ==
    /\ Len(bob_calls) < MaxActionCalls
    /\ bob_calls' = Append(bob_calls, BobActions(bob))
    /\ UNCHANGED bob

BobNext == BobCallActions

----------------------------------------------------------------------------
\* Alice's action derivation: rfc003/alice/actions/btc_eth.rs

\* execution_gas of EtherRedeem
ExecutionGas == 42

\* state_machine::Start: what Alice knows when she proposes the swap.
AliceStarts ==
    [secret : Secrets, source_asset : Assets, source_identity : {"alice_key"}]

\* The counterparty's accept response.
AliceResponses == [target_refund_identity : Peers]

AliceTags ==
    {"Start", "Accepted", "SourceFunded", "BothFunded",
     "SourceFundedTargetRefunded", "SourceFundedTargetRedeemed",
     "SourceRefundedTargetFunded", "SourceRedeemedTargetFunded",
     "Error", "Final"}

\* state_machine::SwapStates<Bitcoin, Ethereum, BitcoinQuantity, EtherQuantity, Secret>
AliceStates ==
    [tag : {"Start"}, start : AliceStarts]
        \cup [tag : {"Accepted"}, start : AliceStarts, response : AliceResponses]
        \cup [tag : {"SourceFunded"}, start : AliceStarts,
              response : AliceResponses, source_htlc_id : OutPoints]
        \cup [tag : {"BothFunded"}, start : AliceStarts,
              response : AliceResponses, source_htlc_id : OutPoints,
              target_htlc_id : Addresses]
        \cup [tag : {"SourceFundedTargetRefunded", "SourceFundedTargetRedeemed"},
              start : AliceStarts, response : AliceResponses,
              source_htlc_id : OutPoints]
        \cup [tag : {"SourceRefundedTargetFunded", "SourceRedeemedTargetFunded"},
              start : AliceStarts, response : AliceResponses,
              target_htlc_id : Addresses]
        \cup [tag : {"Error"}, error : {"error"}]
        \cup [tag : {"Final"},
              outcome : {"Complete", "BothRefunded", "BothRedeemed",
                         "SourceRefundedTargetRedeemed",
                         "SourceRedeemedTargetRefunded"}]

\* alice::bitcoin_htlc and alice::bitcoin_htlc_address
bitcoin_htlc(start, response) ==
    [refund_identity |-> start.source_identity,
     secret_hash |-> <<"sha256", start.secret>>,
     response |-> response]
bitcoin_htlc_address(start, response) ==
    <<"p2wsh", bitcoin_htlc(start, response)>>

\* A fund action of value zero instead of the source asset.
FundHtlcNoValue(start, response) ==
    [kind |-> "FundHtlc",
     address |-> bitcoin_htlc_address(start, response),
     value |-> 0]

FundHtlc(start, response) ==
    [kind |-> "FundHtlc",
     address |-> bitcoin_htlc_address(start, response),
     value |-> start.source_asset]

RedeemHtlc(start, target_htlc_id) ==
    [kind |-> "RedeemHtlc",
     contract_address |-> target_htlc_id,
     execution_gas |-> ExecutionGas,
     data |-> start.secret]

RefundHtlc(start, response, source_htlc_id) ==
    [kind |-> "RefundHtlc",
     outpoint |-> source_htlc_id,
     htlc |-> bitcoin_htlc(start, response),
     value |-> start.source_asset,
     transient_keypair |-> start.source_identity]

\* actions that offers only the redeem once both htlcs are funded.
AliceActionsRedeemFirst(state) ==
    CASE state.tag = "Accepted" -> <<FundHtlc(state.start, state.response)>>
      [] state.tag \in {"BothFunded", "SourceRefundedTargetFunded",
                        "SourceRedeemedTargetFunded"} ->
           <<RedeemHtlc(state.start, state.target_htlc_id)>>
      [] state.tag \in {"SourceFundedTargetRefunded", "SourceFundedTargetRedeemed"} ->
           <<RefundHtlc(state.start, state.response, state.source_htlc_id)>>
      [] OTHER -> <<>>

\* actions that stops offering the redeem once alpha is refunded or redeemed.
AliceActionsStopAfterSourceTerminal(state) ==
    CASE state.tag = "Accepted" -> <<FundHtlc(state.start, state.response)>>
      [] state.tag = "BothFunded" ->
           <<RedeemHtlc(state.start, state.target_htlc_id),
             RefundHtlc(state.start, state.response, state.source_htlc_id)>>
      [] state.tag \in {"SourceFundedTargetRefunded", "SourceFundedTargetRedeemed"} ->
           <<RefundHtlc(state.start, state.response, state.source_htlc_id)>>
      [] OTHER -> <<>>

\* StateActions::actions for SwapStates
AliceActions(state) ==
    CASE state.tag = "Start" -> <<>>
      [] state.tag = "Accepted" -> <<FundHtlc(state.start, state.response)>>
      [] state.tag = "SourceFunded" -> <<>>
      [] state.tag = "BothFunded" ->
           <<RedeemHtlc(state.start, state.target_htlc_id),
             RefundHtlc(state.start, state.response, state.source_htlc_id)>>
      [] state.tag \in {"SourceFundedTargetRefunded", "SourceFundedTargetRedeemed"} ->
           <<RefundHtlc(state.start, state.response, state.source_htlc_id)>>
      [] state.tag \in {"SourceRefundedTargetFunded", "SourceRedeemedTargetFunded"} ->
           <<RedeemHtlc(state.start, state.target_htlc_id)>>
      [] state.tag = "Error" -> <<>>
      [] state.tag = "Final" -> <<>>

AliceIdle == [tag |-> "Error", error |-> "error"]

AliceInit ==
    /\ alice \in AliceStates
    /\ alice_calls = <<>>

\* A caller calls state.actions().
AliceCallActions ==
    /\ Len(alice_calls) < MaxActionCalls
    /\ alice_calls' = Append(alice_calls, AliceActions(alice))
    /\ UNCHANGED alice

AliceNext == AliceCallActions

----------------------------------------------------------------------------
\* The herc20 leg of a nectar swap: nectar/src/swap/comit/herc20.rs

\* asset::Erc20 quantities the funding transaction may carry.
Erc20Quantities == 1..NumAssets

\* What comit::herc20::watch_for_funded hands back: a connector error, or
\* the funding transaction classified Correctly or Incorrectly.
InnerFundedResults ==
    {Err(e) : e \in {"connector error", "connector timeout"}}
        \cup {Ok(f) : f \in [variant : {"Correctly", "Incorrectly"},
                             transaction : Txs,
                             asset : Erc20Quantities]}

\* watch_for_funded that takes an incorrectly funded htlc for a funded one.
watch_for_funded_any_funding(inner) ==
    IF ~inner.ok
    THEN Err([msg |-> inner.err, context |-> None])
    ELSE Ok([transaction |-> inner.val.transaction, asset |-> inner.val.asset])

\* swap::comit::herc20::watch_for_funded
watch_for_funded(inner) ==
    IF ~inner.ok
    THEN Err([msg |-> inner.err, context |-> None])
    ELSE IF inner.val.variant = "Correctly"
    THEN Ok([transaction |-> inner.val.transaction, asset |-> inner.val.asset])
    ELSE Err([msg |-> "Ethereum HTLC incorrectly funded", context |-> None])

\* anyhow's .context(c): the error with c attached.
WithContext(error, c) == [msg |-> error.msg, context |-> Some(c)]

SwapFailedShouldRefund(deployed) ==
    [type |-> "SwapFailedShouldRefund", deployed |-> deployed]
SwapFailedNoRefund == [type |-> "SwapFailedNoRefund"]

\* e.downcast_ref::<SwapFailedShouldRefund<Deployed>>()
DowncastShouldRefund(error) ==
    IF error.context.some /\ error.context.val.type = "SwapFailedShouldRefund"
    THEN Some(error.context.val)
    ELSE None

\* The swap_result the swap hands to refund_if_necessary once the htlc is
\* deployed: a failed funding is a failure that should refund; after a
\* correct funding the rest of the swap succeeds or fails either way.
SwapResults(funded, deployed) ==
    IF ~funded.ok
    THEN {Err(WithContext(funded.err, SwapFailedShouldRefund(deployed)))}
    ELSE {Ok("unit"),
          Err([msg |-> "redeem failed",
               context |-> Some(SwapFailedShouldRefund(deployed))]),
          Err([msg |-> "swap failed", context |-> Some(SwapFailedNoRefund)]),
          Err([msg |-> "swap failed", context |-> None])}

\* refund_if_necessary that reports success once the refund has succeeded.
refund_if_necessary_ok_after_refund(swap_result, refund_ok) ==
    IF ~swap_result.ok
    THEN LET e == swap_result.err
             swap_failed == DowncastShouldRefund(e)
         IN IF swap_failed.some
            THEN IF refund_ok
                 THEN [ret |-> Ok("unit"), refunds |-> <<swap_failed.val.deployed>>]
                 ELSE [ret |-> Err([msg |-> "refund failed", context |-> None]),
                       refunds |-> <<swap_failed.val.deployed>>]
            ELSE [ret |-> Err(e), refunds |-> <<>>]
    ELSE [ret |-> Ok("unit"), refunds |-> <<>>]

\* refund_if_necessary that runs the refund again after it has run.
refund_if_necessary_refunds_twice(swap_result, refund_ok) ==
    IF ~swap_result.ok
    THEN LET e == swap_result.err
             swap_failed == DowncastShouldRefund(e)
         IN IF swap_failed.some
            THEN [ret |-> Err(e),
                  refunds |-> <<swap_failed.val.deployed, swap_failed.val.deployed>>]
            ELSE [ret |-> Err(e), refunds |-> <<>>]
    ELSE [ret |-> Ok("unit"), refunds |-> <<>>]

\* refund_if_necessary that hands the error back without refunding.
refund_if_necessary_no_refund(swap_result, refund_ok) ==
    IF ~swap_result.ok
    THEN [ret |-> Err(swap_result.err), refunds |-> <<>>]
    ELSE [ret |-> Ok("unit"), refunds |-> <<>>]

\* swap::comit::herc20::refund_if_necessary: the value it returns and the
\* execute_refund calls it makes (the Deployed event each is given).
refund_if_necessary(swap_result, refund_ok) ==
    IF ~swap_result.ok
    THEN LET e == swap_result.err
             swap_failed == DowncastShouldRefund(e)
         IN IF swap_failed.some
            THEN IF refund_ok
                 THEN [ret |-> Err(e), refunds |-> <<swap_failed.val.deployed>>]
                 ELSE [ret |-> Err([msg |-> "refund failed", context |-> None]),
                       refunds |-> <<swap_failed.val.deployed>>]
            ELSE [ret |-> Err(e), refunds |-> <<>>]
    ELSE [ret |-> Ok("unit"), refunds |-> <<>>]

RunIdle ==
    [pc |-> "idle", inner |-> None, deployed |-> None, refund_ok |-> TRUE,
     funded |-> None, swap_result |-> None, ret |-> None, refunds |-> <<>>]

RunInit ==
    \E inner \in InnerFundedResults, deployed \in DeployedEvents,
       refund_ok \in BOOLEAN :
        run = [pc |-> "watching", inner |-> inner, deployed |-> deployed,
               refund_ok |-> refund_ok, funded |-> None,
               swap_result |-> None, ret |-> None, refunds |-> <<>>]

\* The watcher of the funding returns.
WatchForFunded ==
    /\ run.pc = "watching"
    /\ run' = [run EXCEPT !.pc = "watched",
                          !.funded = Some(watch_for_funded(run.inner))]

\* The rest of the swap runs to its result.
SwapFinishes ==
    /\ run.pc = "watched"
    /\ \E r \in SwapResults(run.funded.val, run.deployed) :
           run' = [run EXCEPT !.pc = "finished", !.swap_result = Some(r)]

\* refund_if_necessary(actor, herc20, utc_start_of_swap, swap_result)
RefundIfNecessary ==
    /\ run.pc = "finished"
    /\ LET r == refund_if_necessary(run.swap_result.val, run.refund_ok)
       IN run' = [run EXCEPT !.pc = "done", !.ret = Some(r.ret),
                             !.refunds = r.refunds]

RunNext ==
    \/ WatchForFunded
    \/ SwapFinishes
    \/ RefundIfNecessary

----------------------------------------------------------------------------
\* The block cache: comit/src/btsieve/bitcoin/cache.rs

CacheTasks == {"task1", "task2"}
BlockHashes == 1..NumBlocks
Networks == {"Mainnet", "Regtest"}

\* The block the chain holds for a hash; block.block_hash() is that hash.
BlockOf(hash) == [block_hash |-> hash, header |-> <<"header", hash>>]

\* lru::LruCache as the list of its entries, most recently used first.
LruIndex(entries, hash) ==
    CHOOSE i \in 1..Len(entries) : entries[i].hash = hash
LruWithout(entries, i) ==
    SubSeq(entries, 1, i - 1) \o SubSeq(entries, i + 1, Len(entries))

\* LruCache::contains: no change of the order.
LruContains(entries, hash) ==
    \E i \in 1..Len(entries) : entries[i].hash = hash

\* LruCache::get: the entry, moved to the front.
LruGet(entries, hash) ==
    IF LruContains(entries, hash)
    THEN LET i == LruIndex(entries, hash)
         IN [value |-> Some(entries[i].block),
             entries |-> <<entries[i]>> \o LruWithout(entries, i)]
    ELSE [value |-> None, entries |-> entries]

\* LruCache::put: the entry at the front, replacing the one of the same
\* key, else evicting the least recently used one when the cache is full.
LruPut(entries, capacity, hash, block) ==
    LET entry == [hash |-> hash, block |-> block]
    IN IF LruContains(entries, hash)
       THEN <<entry>> \o LruWithout(entries, LruIndex(entries, hash))
       ELSE IF Len(entries) >= capacity
       THEN <<entry>> \o SubSeq(entries, 1, capacity - 1)
       ELSE <<entry>> \o entries

\* block_by_hash that adds an entry without replacing the one of the hash.
block_by_hash_store_appends(entries, capacity, hash, block) ==
    <<[hash |-> hash, block |-> block]>> \o entries

\* block_by_hash that returns the fetched block without caching it.
block_by_hash_store_nothing(entries, capacity, hash, block) == entries

\* block_by_hash after the connector call: guard.put(block_hash, block).
block_by_hash_store(entries, capacity, hash, block) ==
    LruPut(entries, capacity, hash, block)

\* latest_block that adds the block without evicting any.
latest_block_store_unbounded(entries, capacity, hash, block) ==
    IF ~LruContains(entries, hash)
    THEN <<[hash |-> hash, block |-> block]>> \o entries
    ELSE entries

\* latest_block after the connector call: put unless contained.
latest_block_store(entries, capacity, hash, block) ==
    IF ~LruContains(entries, hash)
    THEN LruPut(entries, capacity, hash, block)
    ELSE entries

TaskIdle == [pc |-> "idle"]

\* A lookup whose guard lives on after a miss, into the connector call.
guard_kept_on_miss(t, value) == IF value.some THEN None ELSE Some(t)

\* The holder of the mutex after `if let Some(..) = self.x.lock().await.get(..)
\* { return .. }`: the guard is a temporary of the statement, dropped at its
\* end whether or not the value was there.
guard_after_lookup(t, value) == None

\* One step of a call on the cache, as the trace records it.
CacheEvent(task, op, step, hash, result) ==
    [task |-> task, op |-> op, step |-> step, hash |-> hash, result |-> result]

CallsStarted ==
    Cardinality({i \in 1..Len(trace) : trace[i].step \in {"hit", "miss", "call"}})

\* Cache::new(connector, capacity), for a capacity of at least one block.
CacheInit ==
    /\ cache \in [capacity : 1..MaxCapacity,
                  block_cache : {<<>>},
                  block_cache_lock : {None},
                  connected_network_cache : {None},
                  connected_network_lock : {None},
                  connector_network : Networks]
    /\ tasks = [t \in CacheTasks |-> TaskIdle]
    /\ trace = <<>>

\* block_by_hash, under the lock: the cached block is returned, else the
\* lock is dropped and the connector is asked.
BlockByHashLookup(t, hash) ==
    /\ tasks[t].pc = "idle"
    /\ CallsStarted < MaxCacheCalls
    /\ cache.block_cache_lock = None
    /\ LET got == LruGet(cache.block_cache, hash)
       IN /\ cache' = [cache EXCEPT !.block_cache = got.entries,
                                    !.block_cache_lock =
                                        guard_after_lookup(t, got.value)]
          /\ IF got.value.some
             THEN /\ tasks' = tasks
                  /\ trace' = Append(trace,
                         CacheEvent(t, "block_by_hash", "hit", hash, Ok(got.value.val)))
             ELSE /\ tasks' = [tasks EXCEPT ![t] =
                         [pc |-> "fetch_block", hash |-> hash]]
                  /\ trace' = Append(trace,
                         CacheEvent(t, "block_by_hash", "miss", hash, None))

\* The connector's answers to one call, given its answer when it succeeds.
ConnectorResults(value) == {Ok(value), Err("connector error")}

\* An `.await?` that goes on to the next statement whatever the connector
\* answered.
try_ignores_error(result, continue) == continue

\* `.await?` on the connector's result: the call goes on to its next
\* statement when the result is Ok, and returns the error at once otherwise.
try(result, continue) == IF result.ok THEN continue ELSE TaskIdle

\* self.connector.block_by_hash(block_hash).await?
BlockByHashFetch(t) ==
    /\ tasks[t].pc = "fetch_block"
    /\ \E result \in ConnectorResults(BlockOf(tasks[t].hash)) :
           /\ tasks' = [tasks EXCEPT ![t] =
                  try(result, [pc |-> "store_block", hash |-> tasks[t].hash,
                               block |-> BlockOf(tasks[t].hash)])]
           /\ trace' = Append(trace,
                  CacheEvent(t, "block_by_hash",
                             IF result.ok THEN "fetched" ELSE "failed",
                             tasks[t].hash, result))
    /\ UNCHANGED cache

\* block_by_hash, under the lock again: the block is put and returned.
BlockByHashStore(t) ==
    /\ tasks[t].pc = "store_block"
    /\ cache.block_cache_lock = None
    /\ cache' = [cache EXCEPT !.block_cache =
           block_by_hash_store(cache.block_cache, cache.capacity,
                               tasks[t].hash, tasks[t].block)]
    /\ tasks' = [tasks EXCEPT ![t] = TaskIdle]
    /\ trace' = Append(trace,
           CacheEvent(t, "block_by_hash", "stored", tasks[t].hash, Ok(tasks[t].block)))

\* latest_block: self.connector.latest_block().await?
LatestBlockFetch(t) ==
    /\ tasks[t].pc = "idle"
    /\ CallsStarted < MaxCacheCalls
    /\ \E hash \in BlockHashes : \E result \in ConnectorResults(BlockOf(hash)) :
           /\ tasks' = [tasks EXCEPT ![t] =
                  try(result, [pc |-> "store_latest", hash |-> hash,
                               block |-> BlockOf(hash)])]
           /\ trace' = Append(trace,
                  CacheEvent(t, "latest_block", "call",
                             IF result.ok THEN hash ELSE 0, result))
    /\ UNCHANGED cache

\* latest_block, under the lock: the block is put unless it is cached.
LatestBlockStore(t) ==
    /\ tasks[t].pc = "store_latest"
    /\ cache.block_cache_lock = None
    /\ cache' = [cache EXCEPT !.block_cache =
           latest_block_store(cache.block_cache, cache.capacity,
                              tasks[t].hash, tasks[t].block)]
    /\ tasks' = [tasks EXCEPT ![t] = TaskIdle]
    /\ trace' = Append(trace,
           CacheEvent(t, "latest_block", "stored", tasks[t].hash, Ok(tasks[t].block)))

\* connected_network, under the lock: the cached network is returned, else
\* the lock is dropped and the connector is asked.
ConnectedNetworkLookup(t) ==
    /\ tasks[t].pc = "idle"
    /\ CallsStarted < MaxCacheCalls
    /\ cache.connected_network_lock = None
    /\ cache' = [cache EXCEPT !.connected_network_lock =
           guard_after_lookup(t, cache.connected_network_cache)]
    /\ IF cache.connected_network_cache.some
       THEN /\ tasks' = tasks
            /\ trace' = Append(trace,
                   CacheEvent(t, "connected_network", "hit", 0,
                              Ok(cache.connected_network_cache.val)))
       ELSE /\ tasks' = [tasks EXCEPT ![t] = [pc |-> "fetch_network"]]
            /\ trace' = Append(trace,
                   CacheEvent(t, "connected_network", "miss", 0, None))

\* self.connector.connected_network().await?
ConnectedNetworkFetch(t) ==
    /\ tasks[t].pc = "fetch_network"
    /\ \E result \in ConnectorResults(cache.connector_network) :
           /\ tasks' = [tasks EXCEPT ![t] =
                  try(result, [pc |-> "store_network",
                               network |-> cache.connector_network])]
           /\ trace' = Append(trace,
                  CacheEvent(t, "connected_network",
                             IF result.ok THEN "fetched" ELSE "failed",
                             0, result))
    /\ UNCHANGED cache

\* connected_network that leaves the slot as it found it.
connected_network_keep(slot, network) == slot

\* connected_network after the connector call: the slot .replace(network).
connected_network_replace(slot, network) == Some(network)

\* connected_network, under the lock again: the slot is replaced.
ConnectedNetworkStore(t) ==
    /\ tasks[t].pc = "store_network"
    /\ cache.connected_network_lock = None
    /\ cache' = [cache EXCEPT !.connected_network_cache =
           connected_network_replace(cache.connected_network_cache, tasks[t].network)]
    /\ tasks' = [tasks EXCEPT ![t] = TaskIdle]
    /\ trace' = Append(trace,
           CacheEvent(t, "connected_network", "stored", 0, Ok(tasks[t].network)))

CacheNext ==
    \/ \E t \in CacheTasks, hash \in BlockHashes : BlockByHashLookup(t, hash)
    \/ \E t \in CacheTasks : BlockByHashFetch(t)
    \/ \E t \in CacheTasks : BlockByHashStore(t)
    \/ \E t \in CacheTasks : LatestBlockFetch(t)
    \/ \E t \in CacheTasks : LatestBlockStore(t)
    \/ \E t \in CacheTasks : ConnectedNetworkLookup(t)
    \/ \E t \in CacheTasks : ConnectedNetworkFetch(t)
    \/ \E t \in CacheTasks : ConnectedNetworkStore(t)

CacheIdle ==
    [capacity |-> 1, block_cache |-> <<>>, block_cache_lock |-> None,
     connected_network_cache |-> None, connected_network_lock |-> None,
     connector_network |-> "Mainnet"]

----------------------------------------------------------------------------
\* The bitcoind wallet of nectar: src/bitcoin/wallet.rs

Seeds == {"seed1", "seed2", "seed3"}

\* The first 4 bytes of SHA-256(seed.bytes()), for the seeds of the model.
Sha256First4(seed) ==
    CASE seed = "seed1" -> <<171, 205, 18, 52>>
      [] seed = "seed2" -> <<1, 35, 4, 5>>
      [] seed = "seed3" -> <<18, 3, 4, 5>>

HexDigits == <<"0", "1", "2", "3", "4", "5", "6", "7",
               "8", "9", "a", "b", "c", "d", "e", "f">>

\* format!("{:x}", byte): lower-case hexadecimal, no padding.
LowerHex(byte) ==
    IF byte < 16
    THEN <<HexDigits[byte + 1]>>
    ELSE <<HexDigits[(byte \div 16) + 1], HexDigits[(byte % 16) + 1]>>

\* Wallet::gen_name
gen_name(seed) ==
    LET hash == Sha256First4(seed)
    IN <<"nectar_">> \o LowerHex(hash[1]) \o LowerHex(hash[2])
                     \o LowerHex(hash[3]) \o LowerHex(hash[4])

WalletNames == {gen_name(seed) : seed \in Seeds}

\* Wallet::seed_as_wif: the seed's key with the wallet's network.
seed_as_wif(self) == [network |-> self.network, key |-> self.seed]

\* The RPCs of bitcoind the wallet uses. Each may fail for a reason of its
\* own (failed); otherwise it answers from the state of the node.
RpcError(method) == Err(<<"rpc error", method>>)

rpc_network(node, failed) ==
    IF failed THEN RpcError("network") ELSE Ok(node.network)

rpc_get_wallet_info(node, name, failed) ==
    IF failed \/ ~node.wallets[name].some
    THEN RpcError("get_wallet_info")
    ELSE Ok(node.wallets[name].val)

\* createwallet with blank = true: a wallet with no HD seed.
rpc_create_wallet(node, name, failed) ==
    IF failed \/ node.wallets[name].some
    THEN [result |-> RpcError("create_wallet"), node |-> node]
    ELSE [result |-> Ok("unit"),
          node |-> [node EXCEPT !.wallets[name] = Some([hd_seed_id |-> None])]]

rpc_set_hd_seed(node, name, wif, failed) ==
    IF failed \/ ~node.wallets[name].some
    THEN [result |-> RpcError("set_hd_seed"), node |-> node]
    ELSE [result |-> Ok("unit"),
          node |-> [node EXCEPT !.wallets[name] =
                       Some([hd_seed_id |-> Some(<<"hd_seed", wif.key>>)])]]

rpc_get_new_address(node, name, failed) ==
    IF \/ failed
       \/ ~node.wallets[name].some
       \/ ~node.wallets[name].val.hd_seed_id.some
    THEN RpcError("get_new_address")
    ELSE Ok(<<"bech32", name>>)

rpc_send(method, node, name, failed) ==
    IF failed \/ ~node.wallets[name].some
    THEN RpcError(method)
    ELSE Ok(<<"txid", method>>)

Rpc(method, result) == [method |-> method, ok |-> result.ok]

\* assert_network that lets any reported network pass.
assert_network_any(node, expected, fails) ==
    LET actual == rpc_network(node, "network" \in fails)
    IN [result |-> IF ~actual.ok THEN actual ELSE Ok("unit"),
        rpcs |-> <<Rpc("network", actual)>>]

\* Wallet::assert_network
assert_network(node, expected, fails) ==
    LET actual == rpc_network(node, "network" \in fails)
    IN [result |-> IF ~actual.ok THEN actual
                   ELSE IF expected # actual.val
                   THEN Err(<<"Wrong network", expected, actual.val>>)
                   ELSE Ok("unit"),
        rpcs |-> <<Rpc("network", actual)>>]

\* Wallet::info
info(self, node, fails) ==
    LET asserted == assert_network(node, self.network, fails)
        response == rpc_get_wallet_info(node, self.name, "get_wallet_info" \in fails)
    IN IF ~asserted.result.ok
       THEN asserted
       ELSE [result |-> response,
             rpcs |-> asserted.rpcs \o <<Rpc("get_wallet_info", response)>>]

\* A set_hd_seed arm that reports success without the sethdseed call.
init_set_hd_seed_skipped(self, node, rpcs, fails) ==
    [result |-> Ok("unit"), node |-> node, rpcs |-> rpcs]

\* The set_hd_seed arm of Wallet::init.
init_set_hd_seed(self, node, rpcs, fails) ==
    LET set == rpc_set_hd_seed(node, self.name, seed_as_wif(self),
                               "set_hd_seed" \in fails)
    IN [result |-> set.result, node |-> set.node,
        rpcs |-> rpcs \o <<Rpc("set_hd_seed", set.result)>>]

\* Wallet::init that sets the HD seed of every wallet it finds.
init_always_sets_seed(self, node, fails) ==
    LET got == info(self, node, fails)
    IN IF ~got.result.ok
       THEN LET created == rpc_create_wallet(node, self.name,
                                             "create_wallet" \in fails)
                rpcs == got.rpcs \o <<Rpc("create_wallet", created.result)>>
            IN IF ~created.result.ok
               THEN [result |-> created.result, node |-> created.node,
                     rpcs |-> rpcs]
               ELSE init_set_hd_seed(self, created.node, rpcs, fails)
       ELSE init_set_hd_seed(self, node, got.rpcs, fails)

\* Wallet::init
init(self, node, fails) ==
    LET got == info(self, node, fails)
    IN IF ~got.result.ok
       THEN LET created == rpc_create_wallet(node, self.name,
                                             "create_wallet" \in fails)
                rpcs == got.rpcs \o <<Rpc("create_wallet", created.result)>>
            IN IF ~created.result.ok
               THEN [result |-> created.result, node |-> created.node,
                     rpcs |-> rpcs]
               ELSE init_set_hd_seed(self, created.node, rpcs, fails)
       ELSE IF ~got.result.val.hd_seed_id.some
       THEN init_set_hd_seed(self, node, got.rpcs, fails)
       ELSE [result |-> Ok("unit"), node |-> node, rpcs |-> got.rpcs]

\* derive_transient_sk that also hashes the network of the wallet.
derive_transient_sk_with_network(self, swap_id) ==
    <<"sha256", self.seed, swap_id, self.network, "TRANSIENT_KEY">>

\* Wallet::derive_transient_sk
derive_transient_sk(self, swap_id) ==
    <<"sha256", self.seed, swap_id, "TRANSIENT_KEY">>

\* An operation that asserts the network and then makes one RPC.
AssertThenRpc(node, expected, fails, method, response) ==
    LET asserted == assert_network(node, expected, fails)
    IN IF ~asserted.result.ok
       THEN asserted
       ELSE [result |-> response,
             rpcs |-> asserted.rpcs \o <<Rpc(method, response)>>]

\* Wallet::new_address
new_address(self, node, fails) ==
    AssertThenRpc(node, self.network, fails, "get_new_address",
        rpc_get_new_address(node, self.name, "get_new_address" \in fails))

\* Wallet::send_to_address
send_to_address(self, node, network, fails) ==
    AssertThenRpc(node, network, fails, "send_to_address",
        rpc_send("send_to_address", node, self.name, "send_to_address" \in fails))

\* Wallet::send_raw_transaction
send_raw_transaction(self, node, network, fails) ==
    AssertThenRpc(node, network, fails, "send_raw_transaction",
        rpc_send("send_raw_transaction", node, self.name,
                 "send_raw_transaction" \in fails))

WalletOp(op, self, expected, done) ==
    Some([op |-> op, self |-> self, expected |-> expected,
          result |-> done.result, rpcs |-> done.rpcs])

WalletInit ==
    /\ bitcoind \in [network : Networks,
                     wallets : {[name \in WalletNames |-> None]}]
    /\ wallet = None
    /\ wallet_op = None

\* Wallet::new(seed, url, network)
WalletNew(seed, network, fails) ==
    LET self == [name |-> gen_name(seed), seed |-> seed, network |-> network]
        done == init(self, bitcoind, fails)
    IN /\ bitcoind' = done.node
       /\ wallet' = IF done.result.ok THEN Some(self) ELSE None
       /\ wallet_op' = WalletOp("new", self, network, done)

WalletNewAddress(fails) ==
    /\ wallet.some
    /\ wallet_op' = WalletOp("new_address", wallet.val, wallet.val.network,
                             new_address(wallet.val, bitcoind, fails))
    /\ UNCHANGED <<bitcoind, wallet>>

WalletSendToAddress(network, fails) ==
    /\ wallet.some
    /\ wallet_op' = WalletOp("send_to_address", wallet.val, network,
                             send_to_address(wallet.val, bitcoind, network, fails))
    /\ UNCHANGED <<bitcoind, wallet>>

WalletSendRawTransaction(network, fails) ==
    /\ wallet.some
    /\ wallet_op' = WalletOp("send_raw_transaction", wallet.val, network,
                             send_raw_transaction(wallet.val, bitcoind, network, fails))
    /\ UNCHANGED <<bitcoind, wallet>>

WalletDeriveTransientSk(swap_id) ==
    /\ wallet.some
    /\ wallet_op' = WalletOp("derive_transient_sk", wallet.val, swap_id,
           [result |-> Ok(derive_transient_sk(wallet.val, swap_id)),
            rpcs |-> <<>>])
    /\ UNCHANGED <<bitcoind, wallet>>

WalletNext ==
    \/ \E seed \in Seeds, network \in Networks,
          fails \in SUBSET {"network", "get_wallet_info", "create_wallet", "set_hd_seed"} :
           WalletNew(seed, network, fails)
    \/ \E fails \in SUBSET {"network", "get_new_address"} : WalletNewAddress(fails)
    \/ \E network \in Networks, fails \in SUBSET {"network", "send_to_address"} :
           WalletSendToAddress(network, fails)
    \/ \E network \in Networks, fails \in SUBSET {"network", "send_raw_transaction"} :
           WalletSendRawTransaction(network, fails)
    \/ \E swap_id \in SwapIds : WalletDeriveTransientSk(swap_id)

WalletIdle ==
    /\ bitcoind = [network |-> "Mainnet", wallets |-> [name \in WalletNames |-> None]]
    /\ wallet = None
    /\ wallet_op = None

----------------------------------------------------------------------------
\* GET /markets/BTC-DAI (cnd/src/http_api/markets/get_btc_dai.rs).

PeerIds == {"local", "remote"}
ExpiryOffsets == 0..MaxOffset

\* comit::expiries: the safe offsets of the alpha and the beta expiry, alpha
\* first, for a swap of hbit for herc20 and for a swap of herc20 for hbit.
\* The alpha ledger is funded first and must expire last.
expiry_offsets_hbit_herc20 == <<2, 1>>
expiry_offsets_herc20_hbit == <<2, 1>>

SwapProtocols ==
    [kind : {"HbitHerc20", "Herc20Hbit"},
     hbit_expiry_offset : ExpiryOffsets,
     herc20_expiry_offset : ExpiryOffsets]

\* has_executable_expiries that reads both directions as hbit for herc20.
has_executable_expiries_one_direction(order) ==
    <<order.swap_protocol.hbit_expiry_offset,
      order.swap_protocol.herc20_expiry_offset>> = expiry_offsets_hbit_herc20

\* has_executable_expiries(order)
has_executable_expiries(order) ==
    IF order.swap_protocol.kind = "HbitHerc20"
    THEN <<order.swap_protocol.hbit_expiry_offset,
           order.swap_protocol.herc20_expiry_offset>> = expiry_offsets_hbit_herc20
    ELSE <<order.swap_protocol.herc20_expiry_offset,
           order.swap_protocol.hbit_expiry_offset>> = expiry_offsets_herc20_hbit

\* The (maker, order) pairs the filter of handler keeps.
IsExecutable(entry) == has_executable_expiries(entry.order)

\* The MarketItem of a (maker, order) pair; quantity, price and position
\* are copied from the order and left out here.
MarketItem(entry) ==
    [id |-> entry.order.id, ours |-> entry.maker = "local", maker |-> entry.maker]

\* handler: the market items of the executable orders, in market order.
handler(orders) ==
    LET executable_orders == SelectSeq(orders, IsExecutable)
    IN [i \in 1..Len(executable_orders) |-> MarketItem(executable_orders[i])]

MarketInit == market = [orders |-> <<>>, reply |-> None]

\* An order reaches the order book of the swarm.
PublishOrder(maker, swap_protocol) ==
    /\ ~market.reply.some
    /\ Len(market.orders) < MaxOrders
    /\ market' = [market EXCEPT !.orders = Append(@,
           [maker |-> maker,
            order |-> [id |-> Len(market.orders) + 1,
                       swap_protocol |-> swap_protocol]])]

\* GET /markets/BTC-DAI is answered.
GetBtcDai ==
    /\ ~market.reply.some
    /\ market' = [market EXCEPT !.reply = Some(handler(market.orders))]

MarketNext ==
    \/ \E maker \in PeerIds, swap_protocol \in SwapProtocols :
           PublishOrder(maker, swap_protocol)
    \/ GetBtcDai

MarketAtRest == MarketInit

----------------------------------------------------------------------------
\* POST /swaps/herc20/halbit (cnd/src/http_api/herc20_halbit.rs).

PostTasks == {"request1", "request2"}
BodyFields == {"alpha", "beta", "peer", "role"}
Bodies == SUBSET BodyFields

\* PostBody::<Herc20, Halbit>::deserialize: the body must have its fields.
deserialize(body) ==
    IF body = BodyFields THEN Ok(body) ELSE Err("invalid body")

\* Facade::save of a created swap.
facade_save(storage, swap_id, failed) ==
    IF failed
    THEN [result |-> Err("save failed"), storage |-> storage]
    ELSE [result |-> Ok("unit"), storage |-> storage \cup {swap_id}]

\* Facade::initiate_communication for a swap id.
initiate_communication(swarm, swap_id, failed) ==
    IF failed
    THEN [result |-> Err("communication failed"), swarm |-> swarm]
    ELSE [result |-> Ok("unit"), swarm |-> swarm \cup {swap_id}]

PostIdle == [pc |-> "idle", swap_id |-> 0]

\* A handler that goes on to its next statement after a failure.
reject_goes_on(result, continue) == continue

\* `.map_err(problem::from_anyhow).map_err(warp::reject::custom)?`: the
\* handler goes on when the result is Ok and returns the rejection otherwise.
reject(result, continue) == IF result.ok THEN continue ELSE PostIdle

\* One step of a post_swap call, as the events record it; status is the
\* HTTP status of the reply when the step ends the call, 0 when it does not.
PostEvent(request, step, swap_id, ok, status) ==
    [request |-> request, step |-> step, swap_id |-> swap_id, ok |-> ok,
     status |-> status]

PostsStarted ==
    Cardinality({i \in 1..Len(post.events) : post.events[i].step = "deserialize"})

PostInit ==
    post = [requests |-> [r \in PostTasks |-> PostIdle],
            storage |-> {}, swarm |-> {}, events |-> <<>>]

\* post_swap up to its first await: the body is deserialized and the swap
\* gets a fresh LocalSwapId.
PostSwap(r, body) ==
    /\ post.requests[r].pc = "idle"
    /\ PostsStarted < MaxPosts
    /\ LET result == deserialize(body)
           swap_id == PostsStarted + 1
       IN post' = [post EXCEPT
              !.requests[r] = reject(result, [pc |-> "save", swap_id |-> swap_id]),
              !.events = Append(@, PostEvent(r, "deserialize", swap_id, result.ok,
                                             IF result.ok THEN 0 ELSE 400))]

\* facade.save(swap).await
PostSwapSave(r, failed) ==
    /\ post.requests[r].pc = "save"
    /\ LET swap_id == post.requests[r].swap_id
           saved == facade_save(post.storage, swap_id, failed)
       IN post' = [post EXCEPT
              !.requests[r] = reject(saved.result,
                                     [pc |-> "communicate", swap_id |-> swap_id]),
              !.storage = saved.storage,
              !.events = Append(@, PostEvent(r, "save", swap_id, saved.result.ok,
                                             IF saved.result.ok THEN 0 ELSE 500))]

\* facade.initiate_communication(..).await and the reply: 201 Created with
\* the Location of the swap, or the rejection.
PostSwapCommunicate(r, failed) ==
    /\ post.requests[r].pc = "communicate"
    /\ LET swap_id == post.requests[r].swap_id
           done == initiate_communication(post.swarm, swap_id, failed)
       IN post' = [post EXCEPT
              !.requests[r] = PostIdle,
              !.swarm = done.swarm,
              !.events = Append(@, PostEvent(r, "initiate_communication", swap_id,
                                             done.result.ok,
                                             IF done.result.ok THEN 201 ELSE 500))]

PostNext ==
    \/ \E r \in PostTasks, body \in Bodies : PostSwap(r, body)
    \/ \E r \in PostTasks, failed \in BOOLEAN : PostSwapSave(r, failed)
    \/ \E r \in PostTasks, failed \in BOOLEAN : PostSwapCommunicate(r, failed)

PostAtRest == PostInit

----------------------------------------------------------------------------
\* The specifications.

DbIdle ==
    /\ db = [s \in SwapIds |-> None]
    /\ pending = [w \in Watchers |-> None]
    /\ log = <<>>
    /\ loads = <<>>
BobAtRest == bob = BobIdle /\ bob_calls = <<>>
AliceAtRest == alice = AliceIdle /\ alice_calls = <<>>
RunAtRest == run = RunIdle
CacheAtRest ==
    /\ cache = CacheIdle
    /\ tasks = [t \in CacheTasks |-> TaskIdle]
    /\ trace = <<>>

WalletAtRest == WalletIdle

InitDb ==
    /\ DbInit /\ BobAtRest /\ AliceAtRest /\ RunAtRest /\ CacheAtRest /\ WalletAtRest
    /\ MarketAtRest /\ PostAtRest
NextDb ==
    /\ DbNext
    /\ UNCHANGED <<bobvars, alicevars, run, cachevars, walletvars, market, post>>
SpecDb == InitDb /\ [][NextDb]_vars

InitBob ==
    /\ BobInit /\ DbIdle /\ AliceAtRest /\ RunAtRest /\ CacheAtRest /\ WalletAtRest
    /\ MarketAtRest /\ PostAtRest
NextBob ==
    /\ BobNext
    /\ UNCHANGED <<dbvars, alicevars, run, cachevars, walletvars, market, post>>
SpecBob == InitBob /\ [][NextBob]_vars

InitAlice ==
    /\ AliceInit /\ DbIdle /\ BobAtRest /\ RunAtRest /\ CacheAtRest /\ WalletAtRest
    /\ MarketAtRest /\ PostAtRest
NextAlice ==
    /\ AliceNext
    /\ UNCHANGED <<dbvars, bobvars, run, cachevars, walletvars, market, post>>
SpecAlice == InitAlice /\ [][NextAlice]_vars

InitRun ==
    /\ RunInit /\ DbIdle /\ BobAtRest /\ AliceAtRest /\ CacheAtRest /\ WalletAtRest
    /\ MarketAtRest /\ PostAtRest
NextRun ==
    /\ RunNext
    /\ UNCHANGED <<dbvars, bobvars, alicevars, cachevars, walletvars, market, post>>
SpecRun == InitRun /\ [][NextRun]_vars

InitCache ==
    /\ CacheInit /\ DbIdle /\ BobAtRest /\ AliceAtRest /\ RunAtRest /\ WalletAtRest
    /\ MarketAtRest /\ PostAtRest
NextCache ==
    /\ CacheNext
    /\ UNCHANGED <<dbvars, bobvars, alicevars, run, walletvars, market, post>>
SpecCache == InitCache /\ [][NextCache]_vars

InitWallet ==
    /\ WalletInit /\ DbIdle /\ BobAtRest /\ AliceAtRest /\ RunAtRest /\ CacheAtRest
    /\ MarketAtRest /\ PostAtRest
NextWallet ==
    /\ WalletNext
    /\ UNCHANGED <<dbvars, bobvars, alicevars, run, cachevars, market, post>>
SpecWallet == InitWallet /\ [][NextWallet]_vars

InitMarket ==
    /\ MarketInit /\ DbIdle /\ BobAtRest /\ AliceAtRest /\ RunAtRest /\ CacheAtRest
    /\ WalletAtRest /\ PostAtRest
NextMarket ==
    /\ MarketNext
    /\ UNCHANGED <<dbvars, bobvars, alicevars, run, cachevars, walletvars, post>>
SpecMarket == InitMarket /\ [][NextMarket]_vars

InitPost ==
    /\ PostInit /\ DbIdle /\ BobAtRest /\ AliceAtRest /\ RunAtRest /\ CacheAtRest
    /\ WalletAtRest /\ MarketAtRest
NextPost ==
    /\ PostNext
    /\ UNCHANGED <<dbvars, bobvars, alicevars, run, cachevars, walletvars, market>>
SpecPost == InitPost /\ [][NextPost]_vars

----------------------------------------------------------------------------
\* Properties of the persistence projection (SpecDb).

\* Two consecutive committed saves of the same event for the same swap.
SameSaveTwice(i) ==
    /\ log[i].kind = log[i + 1].kind
    /\ log[i].swap = log[i + 1].swap
    /\ log[i].event = log[i + 1].event
    /\ log[i].before.some

\* C1: save(E, S) called twice in a row on an existing swap S: the second
\* call fails with the "already stored" error of E's kind and leaves the
\* record as the first call left it; the first call succeeds (and stores E)
\* when no event of that kind was stored before it.
C1_SaveTwice ==
    \A i \in 1..(Len(log) - 1) :
        SameSaveTwice(i) =>
            /\ log[i + 1].res = AlreadyStored(log[i].kind)
            /\ log[i + 1].after = log[i].after
            /\ ~StoredEvent(log[i].before.val, log[i].kind).some =>
                   /\ log[i].res = "Ok"
                   /\ StoredEvent(log[i].after.val, log[i].kind).some

C1_Witness ==
    \E i \in 1..(Len(log) - 1) :
        /\ SameSaveTwice(i)
        /\ log[i].res = "Ok"
        /\ log[i + 1].res = AlreadyStored(log[i].kind)
        /\ log[i + 1].after = log[i].after

\* Entries i < j are two saves of a Funded event for the same swap by two
\* watchers, j's call being already issued when i's transaction ran, on a
\* record that held no Funded event.
ConcurrentFunded(i, j) ==
    /\ i < j
    /\ log[i].kind = "Funded" /\ log[j].kind = "Funded"
    /\ log[i].swap = log[j].swap
    /\ log[i].w # log[j].w
    /\ log[j].w \in log[i].overlap
    /\ \A k \in (i + 1)..(j - 1) : log[k].w # log[j].w
    /\ log[i].before.some
    /\ ~log[i].before.val.herc20_funded.some

\* C2: two watchers submit a Funded event for the same swap concurrently:
\* whichever transaction commits first succeeds, the other fails with the
\* "already stored" error, and the stored event is, then and ever after,
\* the one of the successful save.
C2_ConcurrentFunded ==
    \A i, j \in 1..Len(log) :
        ConcurrentFunded(i, j) =>
            /\ log[i].res = "Ok"
            /\ log[j].res = AlreadyStored("Funded")
            /\ log[j].after.val.herc20_funded = Some(Herc20FundedFrom(log[i].event))
            /\ db[log[i].swap].val.herc20_funded = Some(Herc20FundedFrom(log[i].event))

C2_Witness ==
    \E i, j \in 1..Len(log) :
        /\ ConcurrentFunded(i, j)
        /\ log[i].event # log[j].event
        /\ log[i].res = "Ok"
        /\ log[j].res = AlreadyStored("Funded")
        /\ db[log[i].swap].val.herc20_funded.val.transaction = log[i].event.transaction

----------------------------------------------------------------------------
\* Properties of Alice's action derivation (SpecAlice).

AliceCalled == Len(alice_calls) > 0

\* The action redeems the beta htlc at the given location with Alice's secret.
IsRedeemBeta(action, state) ==
    /\ action.kind = "RedeemHtlc"
    /\ action.contract_address = state.target_htlc_id
    /\ action.data = state.start.secret

\* The action refunds the alpha htlc at the given outpoint.
IsRefundAlpha(action, state) ==
    /\ action.kind = "RefundHtlc"
    /\ action.outpoint = state.source_htlc_id
    /\ action.value = state.start.source_asset

\* C3: in BothFunded Alice's actions are Redeem(beta) and Refund(alpha),
\* both together, and nothing else.
C3_AliceBothFunded ==
    \A i \in 1..Len(alice_calls) :
        alice.tag = "BothFunded" =>
            /\ Len(alice_calls[i]) = 2
            /\ \E a \in 1..2 : IsRedeemBeta(alice_calls[i][a], alice)
            /\ \E a \in 1..2 : IsRefundAlpha(alice_calls[i][a], alice)

C3_Witness ==
    /\ AliceCalled
    /\ alice.tag = "BothFunded"
    /\ {alice_calls[1][a].kind : a \in 1..Len(alice_calls[1])}
           = {"RedeemHtlc", "RefundHtlc"}

----------------------------------------------------------------------------
\* Properties of Bob's action derivation (SpecBob); C9 is Alice's (SpecAlice).

BobCalled == Len(bob_calls) > 0
BobAccepted == bob.swap_communication.kind = "Accepted"
BobRequest == bob.swap_communication.swap_accepted.request
Terminal(ledger_state) == ledger_state.kind \in {"Redeemed", "Refunded"}

\* The action deploys the beta htlc.
IsDeployBeta(action) ==
    /\ action.kind = "Deploy"
    /\ action.htlc.ledger = BobRequest.beta_ledger
    /\ action.htlc.asset = BobRequest.beta_asset

\* The action funds the beta htlc at the location of the beta ledger state.
IsFundBeta(action) ==
    /\ action.kind = "Fund"
    /\ action.to = BobRequest.beta_asset.token_contract
    /\ action.data.transfer_to = bob.beta_ledger_state.htlc_location
    /\ action.data.quantity = BobRequest.beta_asset.quantity
    /\ action.network = BobRequest.beta_ledger.network

\* The action redeems the alpha htlc, at the location of the alpha ledger state.
IsRedeemAlpha(action) ==
    /\ action.kind = "Redeem"
    /\ action.output.outpoint = bob.alpha_ledger_state.htlc_location
    /\ action.output.value = BobRequest.alpha_asset
    /\ action.output.witness.htlc.ledger = BobRequest.alpha_ledger
    /\ action.output.witness.secret = bob.secret.val
    /\ action.network = BobRequest.alpha_ledger.network

\* The action redeems the beta htlc, at the location of the beta ledger state.
IsBobRedeemBeta(action) ==
    /\ action.kind = "Redeem"
    /\ action.output.outpoint = bob.beta_ledger_state.htlc_location
    /\ action.output.witness.htlc.ledger = BobRequest.beta_ledger
    /\ action.network = BobRequest.beta_ledger.network

\* C4: accepted, alpha Funded, beta NotDeployed, no secret: exactly
\* [Deploy(beta)].
C4_BobDeploy ==
    \A i \in 1..Len(bob_calls) :
        (/\ BobAccepted
         /\ bob.alpha_ledger_state.kind = "Funded"
         /\ bob.beta_ledger_state.kind = "NotDeployed"
         /\ ~bob.secret.some)
        => /\ Len(bob_calls[i]) = 1
           /\ IsDeployBeta(bob_calls[i][1])

C4_Witness ==
    /\ BobCalled /\ BobAccepted
    /\ bob.alpha_ledger_state.kind = "Funded"
    /\ bob.beta_ledger_state.kind = "NotDeployed"
    /\ ~bob.secret.some
    /\ bob_calls[1][1].kind = "Deploy"

\* C5: accepted, alpha Funded, beta Deployed, no secret: exactly
\* [Fund(beta)], and the fund action pays into the htlc location recorded
\* in the beta Deployed state.
C5_BobFund ==
    \A i \in 1..Len(bob_calls) :
        (/\ BobAccepted
         /\ bob.alpha_ledger_state.kind = "Funded"
         /\ bob.beta_ledger_state.kind = "Deployed"
         /\ ~bob.secret.some)
        => /\ Len(bob_calls[i]) = 1
           /\ IsFundBeta(bob_calls[i][1])

C5_Witness ==
    /\ BobCalled /\ BobAccepted
    /\ bob.alpha_ledger_state.kind = "Funded"
    /\ bob.beta_ledger_state.kind = "Deployed"
    /\ ~bob.secret.some
    /\ bob_calls[1][1].kind = "Fund"
    /\ bob_calls[1][1].data.transfer_to = bob.beta_ledger_state.htlc_location

BothFundedSecretKnown ==
    /\ BobAccepted
    /\ bob.alpha_ledger_state.kind = "Funded"
    /\ bob.beta_ledger_state.kind = "Funded"
    /\ bob.secret.some

\* C6 as stated: accepted, both legs Funded, secret known: exactly one
\* action, a Redeem of the beta-leg htlc.
C6_BobRedeemsBeta ==
    \A i \in 1..Len(bob_calls) :
        BothFundedSecretKnown
        => /\ Len(bob_calls[i]) = 1
           /\ IsBobRedeemBeta(bob_calls[i][1])

\* C6 amended: accepted, both legs Funded, secret known: exactly one action,
\* a Redeem of the alpha-leg htlc: it spends the outpoint of the alpha Funded
\* state on the alpha ledger's network, unlocked with the secret.
C6_BobRedeemsAlpha ==
    \A i \in 1..Len(bob_calls) :
        BothFundedSecretKnown
        => /\ Len(bob_calls[i]) = 1
           /\ IsRedeemAlpha(bob_calls[i][1])

C6_Witness ==
    /\ BobCalled
    /\ BothFundedSecretKnown
    /\ bob_calls[1][1].kind = "Redeem"
    /\ bob_calls[1][1].output.outpoint \in OutPoints

\* C7: accepted, alpha Funded, secret known: for every beta state the
\* actions are exactly one Redeem, and neither Deploy nor Fund is among them.
C7_RedeemSupersedesFunding ==
    \A i \in 1..Len(bob_calls) :
        (BobAccepted /\ bob.alpha_ledger_state.kind = "Funded" /\ bob.secret.some)
        => /\ Len(bob_calls[i]) = 1
           /\ bob_calls[i][1].kind = "Redeem"
           /\ \A a \in 1..Len(bob_calls[i]) :
                  bob_calls[i][a].kind \notin {"Deploy", "Fund"}

C7_Witness ==
    /\ BobCalled /\ BobAccepted
    /\ bob.alpha_ledger_state.kind = "Funded"
    /\ bob.secret.some
    /\ bob.beta_ledger_state.kind \in {"NotDeployed", "Deployed"}
    /\ bob_calls[1][1].kind = "Redeem"

\* C8 as stated: accepted, alpha or beta terminal: no action, whatever the
\* other leg's state and the secret.
C8_BobTerminalNoAction ==
    \A i \in 1..Len(bob_calls) :
        (/\ BobAccepted
         /\ Terminal(bob.alpha_ledger_state) \/ Terminal(bob.beta_ledger_state))
        => bob_calls[i] = <<>>

\* C8 amended: accepted, alpha or beta terminal: no action, except when
\* alpha is Funded and the secret is known (beta is then the terminal leg):
\* there the single action is the Redeem of the alpha htlc.
C8_BobTerminal ==
    \A i \in 1..Len(bob_calls) :
        (/\ BobAccepted
         /\ Terminal(bob.alpha_ledger_state) \/ Terminal(bob.beta_ledger_state))
        => IF bob.alpha_ledger_state.kind = "Funded" /\ bob.secret.some
           THEN Len(bob_calls[i]) = 1 /\ IsRedeemAlpha(bob_calls[i][1])
           ELSE bob_calls[i] = <<>>

C8_Witness ==
    /\ BobCalled /\ BobAccepted
    /\ Terminal(bob.alpha_ledger_state)
    /\ bob.beta_ledger_state.kind = "Funded"
    /\ bob.secret.some
    /\ bob_calls[1] = <<>>

\* Alice's states in which a leg is Redeemed or Refunded.
AliceLegTerminal ==
    alice.tag \in {"SourceFundedTargetRefunded", "SourceFundedTargetRedeemed",
                   "SourceRefundedTargetFunded", "SourceRedeemedTargetFunded",
                   "Final"}

\* C9 as stated: Alice is offered no action once either leg is terminal.
C9_AliceTerminalNoAction ==
    \A i \in 1..Len(alice_calls) :
        AliceLegTerminal => alice_calls[i] = <<>>

\* C9 amended: Alice is offered no action once the swap is finished (Final);
\* while one leg is terminal and the other still Funded she is offered
\* exactly the action on the funded leg: [Refund(alpha)] when beta is
\* refunded or redeemed, [Redeem(beta)] when alpha is refunded or redeemed.
C9_AliceTerminal ==
    \A i \in 1..Len(alice_calls) :
        AliceLegTerminal =>
            CASE alice.tag = "Final" -> alice_calls[i] = <<>>
              [] alice.tag \in {"SourceFundedTargetRefunded",
                                "SourceFundedTargetRedeemed"} ->
                   /\ Len(alice_calls[i]) = 1
                   /\ IsRefundAlpha(alice_calls[i][1], alice)
              [] alice.tag \in {"SourceRefundedTargetFunded",
                                "SourceRedeemedTargetFunded"} ->
                   /\ Len(alice_calls[i]) = 1
                   /\ IsRedeemBeta(alice_calls[i][1], alice)

C9_Witness ==
    /\ AliceCalled
    /\ alice.tag = "SourceRefundedTargetFunded"
    /\ Len(alice_calls[1]) = 1
    /\ alice_calls[1][1].kind = "RedeemHtlc"

\* C10: while the swap is Proposed Bob's actions are exactly Accept and
\* Decline, whatever the ledger states and the secret; no Deploy, Fund or
\* Redeem is offered.
C10_BobProposed ==
    \A i \in 1..Len(bob_calls) :
        bob.swap_communication.kind = "Proposed"
        => /\ Len(bob_calls[i]) = 2
           /\ {bob_calls[i][a].kind : a \in 1..2} = {"Accept", "Decline"}
           /\ \A a \in 1..2 :
                  bob_calls[i][a].sender = bob.swap_communication.pending_response.sender

C10_Witness ==
    /\ BobCalled
    /\ bob.swap_communication.kind = "Proposed"
    /\ bob.alpha_ledger_state.kind = "Funded"
    /\ bob.secret.some
    /\ bob_calls[1][1].kind = "Accept"
    /\ bob_calls[1][2].kind = "Decline"

\* C11: when the swap communication is Rejected Bob's actions are empty,
\* whatever the ledger states and the secret.
C11_BobRejected ==
    \A i \in 1..Len(bob_calls) :
        bob.swap_communication.kind = "Rejected" => bob_calls[i] = <<>>

C11_Witness ==
    /\ BobCalled
    /\ bob.swap_communication.kind = "Rejected"
    /\ bob.alpha_ledger_state.kind = "Funded"
    /\ bob.beta_ledger_state.kind = "NotDeployed"
    /\ bob.secret.some
    /\ bob_calls[1] = <<>>

\* C12: in Accepted Alice's actions are exactly [Fund(alpha)], of the agreed
\* source asset to the address of the alpha htlc; in Start they are empty.
C12_AliceFundsOnAccept ==
    \A i \in 1..Len(alice_calls) :
        /\ alice.tag = "Start" => alice_calls[i] = <<>>
        /\ alice.tag = "Accepted" =>
               /\ Len(alice_calls[i]) = 1
               /\ alice_calls[i][1].kind = "FundHtlc"
               /\ alice_calls[i][1].value = alice.start.source_asset
               /\ alice_calls[i][1].address
                      = bitcoin_htlc_address(alice.start, alice.response)

C12_Witness ==
    /\ AliceCalled
    /\ alice.tag = "Accepted"
    /\ Len(alice_calls[1]) = 1
    /\ alice_calls[1][1].kind = "FundHtlc"
    /\ alice_calls[1][1].value = alice.start.source_asset

\* C13: Bob's actions contain Deploy or Fund only when the swap is accepted
\* and the alpha ledger state is Funded.
C13_BobFundsSecond ==
    \A i \in 1..Len(bob_calls) :
        (\E a \in 1..Len(bob_calls[i]) : bob_calls[i][a].kind \in {"Deploy", "Fund"})
        => /\ BobAccepted
           /\ bob.alpha_ledger_state.kind = "Funded"

C13_Witness ==
    /\ BobCalled /\ BobAccepted
    /\ bob.alpha_ledger_state.kind \in {"NotDeployed", "Deployed", "Redeemed", "Refunded"}
    /\ bob.beta_ledger_state.kind \in {"NotDeployed", "Deployed"}
    /\ bob_calls[1] = <<>>

----------------------------------------------------------------------------
\* Further properties of the persistence projection (SpecDb).

\* C17: a swap record never holds both a stored Redeemed event and a stored
\* Refunded event.
C17_RedeemedXorRefunded ==
    \A s \in SwapIds :
        db[s].some => ~(db[s].val.herc20_redeemed.some /\ db[s].val.herc20_refunded.some)

\* C18: the ledger state folded from a swap's stored events never moves to
\* a lower state, whatever is saved and in whatever order.
C18_Monotonic ==
    [][\A s \in SwapIds :
          db[s].some =>
              /\ db'[s].some
              /\ LedgerStateRank(FoldLedgerState(db'[s].val))
                     >= LedgerStateRank(FoldLedgerState(db[s].val))]_vars

C18_Witness ==
    \E i, j \in 1..Len(log) :
        /\ i < j
        /\ log[i].swap = log[j].swap
        /\ log[i].kind = "Funded" /\ log[i].res = "Ok"
        /\ log[j].kind = "Deployed" /\ log[j].res = "Ok"
        /\ FoldLedgerState(log[i].after.val) = "Funded"
        /\ FoldLedgerState(log[j].after.val) = "Funded"

\* C19: a stored Redeemed event always carries a secret that hashes to the
\* secret_hash of the swap's params.
C19_StoredSecretMatchesHash ==
    \A s \in SwapIds :
        (db[s].some /\ db[s].val.herc20_redeemed.some)
        => SecretHashNew(db[s].val.herc20_redeemed.val.secret)
               = db[s].val.herc20_params.secret_hash

----------------------------------------------------------------------------
\* Properties of the herc20 leg of a nectar swap (SpecRun).

IncorrectlyFunded == run.inner.ok /\ run.inner.val.variant = "Incorrectly"

\* C15: when the funding is classified Incorrectly, watch_for_funded
\* returns an error and no Funded event; a Funded event is returned only
\* for a funding classified Correctly, and is that funding.
C15_FundingGate ==
    run.funded.some =>
        /\ IncorrectlyFunded => ~run.funded.val.ok
        /\ run.funded.val.ok =>
               /\ run.inner.ok /\ run.inner.val.variant = "Correctly"
               /\ run.funded.val.val.transaction = run.inner.val.transaction
               /\ run.funded.val.val.asset = run.inner.val.asset

C15_Witness ==
    /\ run.funded.some
    /\ IncorrectlyFunded
    /\ ~run.funded.val.ok
    /\ run.funded.val.err.msg = "Ethereum HTLC incorrectly funded"

IsReturn(event) == event.step \in {"hit", "stored", "failed"}
IsStart(event) == event.step \in {"hit", "miss", "call"}
Returned == SelectSeq(trace, IsReturn)

\* The calls made on the connector's block_by_hash so far.
ConnectorBlockByHashCalls ==
    Cardinality({i \in 1..Len(trace) :
        /\ trace[i].op = "block_by_hash"
        /\ trace[i].step \in {"fetched", "failed"}})

\* The history of the cache is two calls of block_by_hash(hash) and nothing
\* else, the second issued after the first returned, both over.
BlockByHashTwice(hash) ==
    /\ \A t \in CacheTasks : tasks[t].pc = "idle"
    /\ Len(Returned) = 2
    /\ \A i \in 1..Len(trace) :
           /\ trace[i].op = "block_by_hash"
           /\ trace[i].hash = hash
           /\ (i > 1 /\ IsStart(trace[i])) => IsReturn(trace[i - 1])

TwoIdenticalBlocks ==
    /\ Returned[1].result.ok
    /\ Returned[2].result.ok
    /\ Returned[1].result.val = Returned[2].result.val

RaceOnMissingHash(hash) ==
    /\ \A t \in CacheTasks : tasks[t].pc = "idle"
    /\ Len(trace) >= 2
    /\ trace[1].step = "miss"
    /\ trace[2].step = "miss"
    /\ trace[1].task # trace[2].task
    /\ \A i \in 1..Len(trace) :
           trace[i].op = "block_by_hash" /\ trace[i].hash = hash

\* The cache holds the block of the hash, once, and nothing else.
CachedOnce(hash) ==
    cache.block_cache = <<[hash |-> hash, block |-> BlockOf(hash)]>>

\* C21, as stated: when callers of block_by_hash race on the same missing
\* hash, each of them receives the block of the hash and the cache holds
\* the hash once, mapped to that block.
C21_RaceAllReceive ==
    \A hash \in BlockHashes :
        RaceOnMissingHash(hash) =>
            /\ \A i \in 1..Len(Returned) :
                   Returned[i].result = Ok(BlockOf(hash))
            /\ CachedOnce(hash)

\* C21, amended: when callers of block_by_hash race on the same missing
\* hash, each caller whose connector call succeeded receives the block of
\* the hash, a caller whose connector call failed receives that error, and
\* once any of them has stored the block the cache holds the hash once,
\* mapped to that block; when all failed the cache is still empty.
C21_RaceHarmless ==
    \A hash \in BlockHashes :
        RaceOnMissingHash(hash) =>
            /\ \A i \in 1..Len(trace) :
                   /\ trace[i].step = "fetched" =>
                          \E j \in (i + 1)..Len(trace) :
                              /\ trace[j].task = trace[i].task
                              /\ trace[j].step = "stored"
                              /\ trace[j].result = Ok(BlockOf(hash))
                   /\ trace[i].step = "hit" =>
                          trace[i].result = Ok(BlockOf(hash))
                   /\ trace[i].step = "failed" => ~trace[i].result.ok
            /\ IF \E i \in 1..Len(trace) : trace[i].step = "stored"
               THEN CachedOnce(hash)
               ELSE cache.block_cache = <<>>

C21_Witness ==
    \E hash \in BlockHashes :
        /\ RaceOnMissingHash(hash)
        /\ Cardinality({i \in 1..Len(trace) : trace[i].step = "stored"}) = 2

\* The hashes the block cache holds.
CachedHashes(entries) == {entries[i].hash : i \in 1..Len(entries)}

\* The step stores a fetched block: the last event of trace' is "stored".
StoresBlock ==
    /\ Len(trace') = Len(trace) + 1
    /\ trace'[Len(trace')].step = "stored"
    /\ trace'[Len(trace')].op \in {"block_by_hash", "latest_block"}

IsNetworkEvent(i, steps) ==
    trace[i].op = "connected_network" /\ trace[i].step \in steps

\* The slot was filled before the event i of the trace.
SlotFilledBefore(i) ==
    \E j \in 1..(i - 1) : IsNetworkEvent(j, {"stored"})

\* Every connected_network call that began after the slot was filled
\* returned the cached network, without a call of the connector.
ReusedOnceFilled ==
    \A i \in 1..Len(trace) :
        (IsNetworkEvent(i, {"hit", "miss"}) /\ SlotFilledBefore(i)) =>
            /\ trace[i].step = "hit"
            /\ trace[i].result = Ok(cache.connector_network)

\* C23, as stated: the connector's connected_network is queried
\* successfully at most once, and every call after the slot is filled
\* returns the cached network without a connector call.
C23_QueriedOnce ==
    /\ Cardinality({i \in 1..Len(trace) : IsNetworkEvent(i, {"fetched"})}) <= 1
    /\ ReusedOnceFilled

\* C23, amended: every connected_network call that begins after the slot
\* is filled returns the cached network without a connector call; the
\* connector is queried only by calls that found the slot empty, so it is
\* queried successfully more than once only when calls race on the empty
\* slot, and each of them then stores and returns the connector's network.
C23_ReusedOnceFilled ==
    /\ ReusedOnceFilled
    /\ \A i \in 1..Len(trace) :
           /\ IsNetworkEvent(i, {"fetched", "failed"}) =>
                  \E j \in 1..(i - 1) :
                      /\ IsNetworkEvent(j, {"miss"})
                      /\ trace[j].task = trace[i].task
                      /\ ~SlotFilledBefore(j)
           /\ IsNetworkEvent(i, {"stored"}) =>
                  /\ trace[i].result = Ok(cache.connector_network)
                  /\ cache.connected_network_cache = Some(cache.connector_network)

\* A call has filled the slot and a later call was answered from it.
C23_Witness ==
    \E i \in 1..Len(trace) :
        /\ IsNetworkEvent(i, {"hit"})
        /\ SlotFilledBefore(i)

\* The RPC methods the last wallet operation issued.
RpcsIssued == {wallet_op.val.rpcs[i].method : i \in 1..Len(wallet_op.val.rpcs)}

\* The last operation is a send for a network other than the one bitcoind
\* reported to it.
SendOnWrongNetwork ==
    /\ wallet_op.some
    /\ wallet_op.val.op \in {"send_to_address", "send_raw_transaction"}
    /\ wallet_op.val.rpcs[1] = [method |-> "network", ok |-> TRUE]
    /\ wallet_op.val.expected # bitcoind.network

\* C24: send_to_address and send_raw_transaction never invoke the send RPC
\* of bitcoind when the network bitcoind reports differs from the expected
\* network; they return a "Wrong network" error.
C24_WrongNetworkSendsNothing ==
    SendOnWrongNetwork =>
        /\ wallet_op.val.result =
               Err(<<"Wrong network", wallet_op.val.expected, bitcoind.network>>)
        /\ RpcsIssued = {"network"}

C24_Witness ==
    /\ SendOnWrongNetwork
    /\ wallet_op.val.op = "send_raw_transaction"
    /\ wallet_op.val.expected # wallet.val.network

\* The last operation is a Wallet::new for a network other than the one
\* bitcoind reported to it.
NewOnWrongNetwork ==
    /\ wallet_op.some
    /\ wallet_op.val.op = "new"
    /\ wallet_op.val.rpcs[1] = [method |-> "network", ok |-> TRUE]
    /\ wallet_op.val.expected # bitcoind.network

\* C25: Wallet::new against a bitcoind whose network differs from the
\* wallet's expected network fails without issuing create_wallet or
\* set_hd_seed.
C25_WrongNetworkNoInit ==
    NewOnWrongNetwork =>
        /\ ~wallet_op.val.result.ok
        /\ RpcsIssued \cap {"create_wallet", "set_hd_seed"} = {}

\* bitcoind answered every RPC the operation made.
AllAnswered(op) == \A i \in 1..Len(op.rpcs) : op.rpcs[i].ok

\* The wallet of the name exists in bitcoind and has an HD seed.
Initialised(node, name) ==
    node.wallets[name].some /\ node.wallets[name].val.hd_seed_id.some

\* The step is a Wallet::new for the network of bitcoind, answered by
\* bitcoind, where the wallet already exists and has an HD seed.
NewAgain ==
    /\ wallet_op'.some
    /\ wallet_op'.val.op = "new"
    /\ wallet_op'.val.self.network = bitcoind.network
    /\ Initialised(bitcoind, wallet_op'.val.self.name)
    /\ AllAnswered(wallet_op'.val)

\* C26: Wallet::new for a wallet that exists in bitcoind and has an HD
\* seed succeeds, issues neither create_wallet nor set_hd_seed, leaves
\* bitcoind as it was, and new_address on the wallet succeeds.
C26_NewIsIdempotent ==
    [][NewAgain =>
          /\ wallet_op'.val.result = Ok("unit")
          /\ wallet_op'.val.rpcs = <<[method |-> "network", ok |-> TRUE],
                                     [method |-> "get_wallet_info", ok |-> TRUE]>>
          /\ bitcoind' = bitcoind
          /\ wallet' = Some(wallet_op'.val.self)
          /\ new_address(wallet'.val, bitcoind', {}).result.ok
      ]_vars

\* Wallet::new has succeeded with no more than the two RPCs of info.
C26_Witness ==
    /\ wallet_op.some
    /\ wallet_op.val.op = "new"
    /\ wallet_op.val.result.ok
    /\ Len(wallet_op.val.rpcs) = 2
    /\ Initialised(bitcoind, wallet_op.val.self.name)

\* Every Wallet value of a seed, whatever its name and network.
WalletsOfSeed(seed) == [name : WalletNames, seed : {seed}, network : Networks]

\* C29: the key derive_transient_sk returns is the one every wallet of the
\* same seed derives for the same swap id, whatever the wallet's name and
\* network and whatever bitcoind holds, and deriving it makes no RPC.
C29_TransientKeyOfSeedAndSwap ==
    (wallet_op.some /\ wallet_op.val.op = "derive_transient_sk") =>
        /\ \A other \in WalletsOfSeed(wallet_op.val.self.seed) :
               derive_transient_sk(other, wallet_op.val.expected)
                   = wallet_op.val.result.val
        /\ wallet_op.val.rpcs = <<>>

C29_Witness ==
    /\ wallet_op.some
    /\ wallet_op.val.op = "derive_transient_sk"
    /\ wallet_op.val.expected = "swap2"
    /\ Initialised(bitcoind, wallet_op.val.self.name)

\* The saves of the kind and swap of a load that had succeeded before it.
SavedBefore(load) ==
    {i \in 1..load.at :
        /\ log[i].kind = load.kind
        /\ log[i].swap = load.swap
        /\ log[i].res = "Ok"}

\* C27: for an inserted swap and each event kind, load returns None before
\* any successful save of the kind, and after a successful save(E) it
\* returns Some(E') with every field of E' equal to that of E.
C27_SaveLoadRoundTrip ==
    \A j \in 1..Len(loads) :
        loads[j].known =>
            /\ loads[j].result.ok
            /\ IF SavedBefore(loads[j]) = {}
               THEN loads[j].result.val = None
               ELSE \A i \in SavedBefore(loads[j]) :
                        loads[j].result.val = Some(log[i].event)

\* A Redeemed event with the second secret was saved and then loaded.
C27_Witness ==
    \E j \in 1..Len(loads) :
        /\ loads[j].kind = "Redeemed"
        /\ loads[j].result.ok
        /\ loads[j].result.val.some
        /\ loads[j].result.val.val.secret = "secret2"

\* C28: a save or a load for a swap id that has no record fails with the
\* not-found error and leaves the database, and so the set of stored swap
\* ids, as it was.
C28_UnknownSwap ==
    [][/\ (Len(log') > Len(log) /\ ~db[log'[Len(log')].swap].some) =>
              /\ log'[Len(log')].res = "Swap not found"
              /\ db' = db
       /\ (Len(loads') > Len(loads) /\ ~db[loads'[Len(loads')].swap].some) =>
              /\ loads'[Len(loads')].result = Err("Swap not found")
              /\ db' = db
      ]_vars

\* A save and a load have both been made for a swap that has no record.
C28_Witness ==
    /\ \E i \in 1..Len(log) : log[i].res = "Swap not found"
    /\ \E j \in 1..Len(loads) : ~loads[j].known /\ loads[j].kind = "Deployed"
    /\ ~db["swap2"].some

\* The swap failed with an error that is a SwapFailedShouldRefund.
FailedShouldRefund ==
    /\ ~run.swap_result.val.ok
    /\ run.swap_result.val.err.context.some
    /\ run.swap_result.val.err.context.val.type = "SwapFailedShouldRefund"

\* C30: once refund_if_necessary has returned, execute_refund has been
\* called once, with the Deployed event the error carries, when swap_result
\* is an Err that is a SwapFailedShouldRefund, and has not been called when
\* swap_result is Ok or any other error.
C30_RefundExactlyWhenNecessary ==
    run.pc = "done" =>
        IF FailedShouldRefund
        THEN run.refunds = <<run.swap_result.val.err.context.val.deployed>>
        ELSE run.refunds = <<>>

\* A swap that failed with an error of another type ended without a refund.
C30_Witness ==
    /\ run.pc = "done"
    /\ ~run.swap_result.val.ok
    /\ run.swap_result.val.err.context = Some(SwapFailedNoRefund)
    /\ run.refunds = <<>>
    /\ run.funded.val.ok

\* C32: the name Wallet::new gives the wallet is "nectar_" followed by the
\* encoding of the first 4 bytes of SHA-256(seed): a wallet of the same
\* seed has the same name, and a seed whose hash differs in its first 4
\* bytes has a different name.
C32_NameOfSeed ==
    (wallet_op.some /\ wallet_op.val.op = "new") =>
        /\ wallet_op.val.self.name[1] = "nectar_"
        /\ \A other \in Seeds :
               /\ other = wallet_op.val.self.seed =>
                      gen_name(other) = wallet_op.val.self.name
               /\ Sha256First4(other) # Sha256First4(wallet_op.val.self.seed) =>
                      gen_name(other) # wallet_op.val.self.name

\* The alpha htlc is funded and neither redeemed nor refunded.
AlphaFundedOpen ==
    alice.tag \in {"SourceFunded", "BothFunded",
                   "SourceFundedTargetRefunded", "SourceFundedTargetRedeemed"}

\* C33: in every state of Alice where the alpha htlc is funded and neither
\* redeemed nor refunded, the actions contain the refund of the alpha htlc.
C33_AliceCanReclaim ==
    \A i \in 1..Len(alice_calls) :
        AlphaFundedOpen =>
            \E k \in 1..Len(alice_calls[i]) :
                IsRefundAlpha(alice_calls[i][k], alice)

\* The alpha htlc has been refunded to Alice.
AlphaRefunded ==
    \/ alice.tag = "SourceRefundedTargetFunded"
    \/ /\ alice.tag = "Final"
       /\ alice.outcome \in {"BothRefunded", "SourceRefundedTargetRedeemed"}

\* C34: in a state of Alice where the alpha htlc has been refunded to her,
\* the actions contain no redeem of the beta htlc.
C34_NoRedeemAfterRefund ==
    \A i \in 1..Len(alice_calls) :
        AlphaRefunded =>
            \A k \in 1..Len(alice_calls[i]) :
                alice_calls[i][k].kind # "RedeemHtlc"

\* C35: refund_if_necessary returns Ok exactly when swap_result was Ok; for
\* a failed swap it returns the swap's own error, also after a refund that
\* succeeded, and the error of execute_refund only when the refund it ran
\* failed.
C35_ReturnsSwapError ==
    run.pc = "done" =>
        /\ run.ret.val.ok <=> run.swap_result.val.ok
        /\ ~run.swap_result.val.ok =>
               IF FailedShouldRefund /\ ~run.refund_ok
               THEN run.ret.val = Err([msg |-> "refund failed", context |-> None])
               ELSE run.ret.val = Err(run.swap_result.val.err)

\* The refund ran and failed, and its error was returned.
C35_Witness ==
    /\ run.pc = "done"
    /\ FailedShouldRefund
    /\ ~run.refund_ok
    /\ run.refunds = <<run.deployed>>
    /\ run.ret.val.err.msg = "refund failed"

\* The fields of a swap record other than the event field of the kind.
SameButKind(old, new, kind) ==
    /\ new.herc20_params = old.herc20_params
    /\ \A k \in EventKinds \ {kind} : StoredEvent(new, k) = StoredEvent(old, k)

\* C36: a successful save of an event of kind K for swap S sets the stored
\* field of kind K of S and changes nothing else of S nor any other swap's
\* record; a failed save leaves the whole database as it was.
C36_SaveFrame ==
    [][Len(log') > Len(log) =>
          LET call == log'[Len(log')]
          IN IF call.res = "Ok"
             THEN /\ \A s \in SwapIds \ {call.swap} : db'[s] = db[s]
                  /\ db[call.swap].some /\ db'[call.swap].some
                  /\ SameButKind(db[call.swap].val, db'[call.swap].val, call.kind)
                  /\ ~StoredEvent(db[call.swap].val, call.kind).some
                  /\ StoredEvent(db'[call.swap].val, call.kind).some
             ELSE db' = db
      ]_vars

\* A Redeemed event was saved on a swap that had its Funded event stored,
\* and the Funded event is still there afterwards.
C36_Witness ==
    /\ \E i \in 1..Len(log) :
           /\ log[i].res = "Ok"
           /\ log[i].kind = "Redeemed"
           /\ log[i].before.val.herc20_funded.some
           /\ log[i].after.val.herc20_funded.some
    /\ db["swap1"].some

\* C37: no task holds the mutex of the block cache or of the network slot
\* while it awaits the connector, and the step that takes the mutex after a
\* connector call finds it free: no call waits for another and each call
\* completes once its own connector call has.
C37_NoLockAcrossAwait ==
    \A t \in CacheTasks :
        /\ tasks[t].pc \in {"fetch_block", "fetch_network"} =>
               /\ cache.block_cache_lock # Some(t)
               /\ cache.connected_network_lock # Some(t)
        /\ tasks[t].pc \in {"store_block", "store_latest"} =>
               cache.block_cache_lock = None
        /\ tasks[t].pc = "store_network" =>
               cache.connected_network_lock = None

\* One task is about to store its block while the other awaits the
\* connector for the same cache.
C37_Witness ==
    \E t, u \in CacheTasks :
        /\ tasks[t].pc = "store_block"
        /\ tasks[u].pc = "fetch_block"

\* The step is a connector call that failed: the last event of trace' is the
\* failure of block_by_hash or connected_network, or the failed call of
\* latest_block.
ConnectorFailed ==
    /\ Len(trace') = Len(trace) + 1
    /\ trace'[Len(trace')].step \in {"failed", "call"}
    /\ ~trace'[Len(trace')].result.ok

\* The event j begins a call for the key of the failed event i.
SameKeyLater(i, j) ==
    /\ i < j
    /\ trace[j].op = trace[i].op
    /\ trace[j].hash = trace[i].hash
    /\ IsStart(trace[j])

\* Some call stored the key of the event i before the event j.
KeyStoredBefore(i, j) ==
    \E k \in 1..(j - 1) :
        /\ trace[k].step = "stored"
        /\ IF trace[i].op = "connected_network"
           THEN trace[k].op = "connected_network"
           ELSE trace[k].op # "connected_network" /\ trace[k].hash = trace[i].hash

\* C38: a connector error is never cached: the step in which the connector
\* fails for block_by_hash, latest_block or connected_network returns that
\* error to the caller and leaves the block cache and the network slot as
\* they were, and a later call for the same key, no call having stored the
\* key, queries the connector again.
C38_ErrorsNotCached ==
    /\ [][ConnectorFailed =>
             LET event == trace'[Len(trace')]
             IN /\ event.result = Err("connector error")
                /\ tasks'[event.task] = TaskIdle
                /\ cache'.block_cache = cache.block_cache
                /\ cache'.connected_network_cache = cache.connected_network_cache
         ]_vars
    /\ [](\A i, j \in 1..Len(trace) :
             (/\ trace[i].step \in {"failed", "call"}
              /\ ~trace[i].result.ok
              /\ SameKeyLater(i, j)
              /\ ~KeyStoredBefore(i, j)) =>
                 trace[j].step \in {"miss", "call"})

\* A block_by_hash call failed at the connector and a later call for the same
\* hash missed the cache.
C38_Witness ==
    \E i, j \in 1..Len(trace) :
        /\ trace[i].op = "block_by_hash"
        /\ trace[i].step = "failed"
        /\ SameKeyLater(i, j)
        /\ trace[j].step = "miss"

\* The step is a Wallet::new.
IsNew == wallet_op'.some /\ wallet_op'.val.op = "new"

\* The step is a Wallet::new for the network of bitcoind, its info answered
\* by bitcoind, where the wallet exists and has no HD seed: an earlier
\* attempt created the wallet and its sethdseed failed.
NewAfterPartialAttempt ==
    /\ IsNew
    /\ wallet_op'.val.self.network = bitcoind.network
    /\ bitcoind.wallets[wallet_op'.val.self.name].some
    /\ ~bitcoind.wallets[wallet_op'.val.self.name].val.hd_seed_id.some
    /\ \A i \in 1..Len(wallet_op'.val.rpcs) :
           wallet_op'.val.rpcs[i].method \in {"network", "get_wallet_info"} =>
               wallet_op'.val.rpcs[i].ok

\* The RPC methods of the operation, in the order they were issued.
MethodsOf(op) == [i \in 1..Len(op.rpcs) |-> op.rpcs[i].method]

\* C40: Wallet::new on a wallet that exists in bitcoind without an HD seed
\* issues set_hd_seed and no create_wallet; and every Wallet::new that
\* succeeds, whether bitcoind had no wallet, a wallet without a seed or a
\* wallet with its seed, leaves the wallet existing with its HD seed set.
C40_RecoversFromPartialAttempt ==
    [][/\ NewAfterPartialAttempt =>
              MethodsOf(wallet_op'.val) = <<"network", "get_wallet_info", "set_hd_seed">>
       /\ (IsNew /\ wallet_op'.val.result.ok) =>
              /\ Initialised(bitcoind', wallet_op'.val.self.name)
              /\ wallet' = Some(wallet_op'.val.self)
      ]_vars

\* Wallet::new has succeeded with set_hd_seed as its third and last RPC: it
\* found the wallet of a failed attempt and gave it its seed.
C40_Witness ==
    /\ wallet_op.some
    /\ wallet_op.val.op = "new"
    /\ wallet_op.val.result.ok
    /\ MethodsOf(wallet_op.val) = <<"network", "get_wallet_info", "set_hd_seed">>
    /\ Initialised(bitcoind, wallet_op.val.self.name)

\* The offsets of the protocol are the safe offsets of its direction.
SafeExpiries(swap_protocol) ==
    \/ /\ swap_protocol.kind = "HbitHerc20"
       /\ swap_protocol.hbit_expiry_offset = expiry_offsets_hbit_herc20[1]
       /\ swap_protocol.herc20_expiry_offset = expiry_offsets_hbit_herc20[2]
    \/ /\ swap_protocol.kind = "Herc20Hbit"
       /\ swap_protocol.herc20_expiry_offset = expiry_offsets_herc20_hbit[1]
       /\ swap_protocol.hbit_expiry_offset = expiry_offsets_herc20_hbit[2]

\* The ids of the orders of the book with safe expiries, in book order.
SafeOrderIds ==
    LET IsSafe(entry) == SafeExpiries(entry.order.swap_protocol)
        safe == SelectSeq(market.orders, IsSafe)
    IN [i \in 1..Len(safe) |-> safe[i].order.id]

\* C31: has_executable_expiries(order) is true exactly when the order's
\* expiry offsets are the safe offsets of its protocol direction, and the
\* reply of GET /markets/BTC-DAI lists exactly the orders of the book with
\* safe expiries, none of the others.
C31_ExecutableOrders ==
    /\ \A entry \in {market.orders[i] : i \in 1..Len(market.orders)} :
           has_executable_expiries(entry.order)
               <=> SafeExpiries(entry.order.swap_protocol)
    /\ market.reply.some =>
           [i \in 1..Len(market.reply.val) |-> market.reply.val[i].id] = SafeOrderIds

\* The reply kept one order of the book and dropped another.
C31_Witness ==
    /\ market.reply.some
    /\ Len(market.reply.val) = 1
    /\ Len(market.orders) = 2

\* The call of the request that the event i belongs to has ended at i or
\* before the request's next event, which begins another call.
CallEndedAt(i) ==
    \A j \in (i + 1)..Len(post.events) :
        (/\ post.events[j].request = post.events[i].request
         /\ \A k \in (i + 1)..(j - 1) :
                post.events[k].request # post.events[i].request) =>
            post.events[j].step = "deserialize"

\* facade.save of the swap id returned successfully before the event i.
SavedBeforeEvent(i) ==
    \E j \in 1..(i - 1) :
        /\ post.events[j].step = "save"
        /\ post.events[j].ok
        /\ post.events[j].swap_id = post.events[i].swap_id
        /\ post.events[j].request = post.events[i].request

\* C39: post_swap persists before it communicates: initiate_communication
\* is invoked for a swap id only after facade.save of that swap returned
\* successfully, and a call whose body does not deserialize or whose save
\* fails ends there, with no communication and a reply other than 201.
C39_PersistsBeforeCommunicates ==
    /\ \A i \in 1..Len(post.events) :
           /\ post.events[i].step = "initiate_communication" => SavedBeforeEvent(i)
           /\ post.events[i].status = 201 =>
                  /\ post.events[i].step = "initiate_communication"
                  /\ post.events[i].ok
           /\ (post.events[i].step \in {"deserialize", "save"} /\ ~post.events[i].ok) =>
                  /\ post.events[i].status # 201
                  /\ CallEndedAt(i)
                  /\ post.events[i].swap_id \notin post.swarm
    /\ post.swarm \subseteq post.storage

\* One call saved its swap, initiated communication and replied 201, and
\* another call failed to save.
C39_Witness ==
    \E i, j \in 1..Len(post.events) :
        /\ post.events[i].status = 201
        /\ post.events[j].step = "save"
        /\ ~post.events[j].ok

====
